---- MODULE Spec2Model ----
(***************************************************************************)
(* Playlist comparison, batched mutation and single-slot undo of the       *)
(* Minkyu Spotify application.                                             *)
(*                                                                         *)
(* A track is reduced to its URI, the only comparison key of the code.     *)
(* A remote playlist is a sequence of items; an item carries a track URI   *)
(* or no track body (NoTrack).  Positions are 0-based as in the code;      *)
(* TLA+ sequences are 1-based, so position p is element p + 1.             *)
(*                                                                         *)
(* Specifications:                                                         *)
(*   SpecDiff    buildPlaylistComparison on bounded track lists            *)
(*   SpecFilter  getFilteredCandidateUris on bounded lists                 *)
(*   Spec        the sync and undo routes, the remote and the client, with *)
(*               the requests of two sessions interleaved                  *)
(*   SpecBulk    one sync or remove request on lists of several batches    *)
(*   SpecFetch   one call of the rate-limited fetcher against a remote     *)
(*               that answers every request; timers fire                   *)
(*   SpecWalk    one call of fetchAllPlaylistTracks against a remote that  *)
(*               serves any chain of pages and answers every request       *)
(*   SpecSlot    syncs, removals, comparisons and undo requests on one     *)
(*               playlist                                                  *)
(*   SpecTwoWay  one call of syncPlaylistsWithFetcher, with another client *)
(*               that may modify the playlists in between                  *)
(*   SpecLoad    the playlist loads of the client started by successive    *)
(*               comparisons, their page responses arriving in any order   *)
(***************************************************************************)
EXTENDS Integers, Sequences, FiniteSets, TLC

VARIABLES
  inA,              \* SpecDiff: tracks of playlist A handed to the comparison
  inB,              \* SpecDiff: tracks of playlist B handed to the comparison
  inItems,          \* SpecFilter: items of the target playlist served by the remote
  inCandidates,     \* SpecFilter: candidateUris
  filterResult,     \* SpecFilter: outcome of getFilteredCandidateUris (NoResult before)
  comparison,       \* client: the PlaylistComparisonPayload built last (NoComparison before)
  comparedSnap,     \* history: version of each remote playlist when comparison was built
  remote,           \* remote: the items of each playlist
  snap,             \* remote: version counter of each playlist, the n of its snapshot id
  sessionUndoStore, \* server: the entries of the Map sessionUndoStore, as [key, value] pairs
  now,              \* server: Date.now(), advanced by every request
  calls,            \* server: the route handler running or last run in each slot
  ledger,           \* history: for every undo token issued, the sync that recorded it
                    \*   and the number of times consumeUndoEntry returned its entry
  faults,           \* remote: number of requests it has failed
  fetchCall,        \* SpecFetch: the call of the fetcher that is running or has ended
  fetchRemote,      \* SpecFetch: how the remote answers the requests of that call
  pageWalk,         \* SpecWalk: the call of fetchAllPlaylistTracks that is running or has ended
  pages,            \* SpecWalk: the pages the remote serves, by cursor
  syncRun,          \* SpecTwoWay: the call of syncPlaylistsWithFetcher that is running or has ended
  playlistRequestTokens, \* client: the ref playlistRequestTokens.current, by slot
  playlistLoads,    \* client: the state playlistLoads, by slot
  loadCalls,        \* client: the calls of loadPlaylistFully, in the order they started
  updaterQueue,     \* client: the updaters handed to setPlaylistLoads and not yet run
  compares          \* client: the calls of handleCompare, in the order they started

diffVars == <<inA, inB>>
filterVars == <<inItems, inCandidates, filterResult>>
clientVars == <<comparison, comparedSnap>>
remoteVars == <<remote, snap, faults>>
serverVars == <<sessionUndoStore, now, calls, ledger>>
fetcherVars == <<fetchCall, fetchRemote>>
walkerVars == <<pageWalk, pages>>
twoWayVars == <<syncRun>>
loaderVars == <<playlistRequestTokens, playlistLoads, loadCalls, updaterQueue, compares>>
vars == <<inA, inB, inItems, inCandidates, filterResult, comparison, comparedSnap,
          remote, snap, sessionUndoStore, now, calls, ledger, faults, fetchCall, fetchRemote,
          pageWalk, pages, syncRun,
          playlistRequestTokens, playlistLoads, loadCalls, updaterQueue, compares>>

-----------------------------------------------------------------------------
\* Bounds of the model

\* longest track list handed to the comparison in SpecDiff
MaxDiffLen == 3
\* longest target playlist and longest candidate list in SpecFilter
MaxFilterLen == 3
\* number of items the remote puts in one page of playlist tracks
PageLimit == 2

\* the pages a remote serves besides the embedded first one
MaxPages == 2

\* the page requests of one walk that the remote answers
MaxFetches == 4
\* number of requests the routes receive in Spec
MaxRequests == 3
\* number of requests the remote fails
MaxFaults == 1
\* longest trackUris list posted directly to the sync route in Spec
MaxTrackUris == 2
\* SpecBulk: lists of up to this many full batches, and one more entry
MaxBulkBatches == 2
\* SpecLoad: most comparisons the client starts
MaxCompares == 2
\* SpecLoad: most updaters waiting for a render when the client takes a step
MaxPending == 1
\* SpecLoad: tracks per page of the tracks route (limit=100 of the client, scaled)
LoadLimit == 1
\* SpecTwoWay: most add batches of one direction
MaxTwoWayBatches == 2
\* SpecBulk: longest list of raw entries posted directly to the remove route
MaxRawEntries == 2

-----------------------------------------------------------------------------
\* Values

Uris == {"X", "Y", "Z"}
SmallUris == {"X", "Y"}
NoTrack == "null"
NoCursor == -1
NoComparison == [status |-> "none"]
NoResult == [status |-> "none"]

Min(a, b) == IF a < b THEN a ELSE b

SeqsUpTo(S, n) == UNION {[1..k -> S] : k \in 0..n}

\* number of elements of a sequence of URIs equal to u
CountOf(u, uris) == Cardinality({i \in DOMAIN uris : uris[i] = u})

\* the URIs of a sequence of records having a uri field
UrisOf(tracks) == [i \in DOMAIN tracks |-> tracks[i].uri]

\* a Map<string, number> read with "?? 0": absent keys read as 0
EmptyCounts == [u \in Uris |-> 0]

\* A loop over a list that can be hundreds of items long is written as a loop
\* over the indexes lo..hi that runs its first half and then its second half
\* on the result; the test "left = left" makes TLC evaluate the first half
\* before it descends into the second, which keeps the evaluation shallow.

-----------------------------------------------------------------------------
\* comparison.ts

toComparableTrack(track, instanceId) ==
  [instanceId |-> instanceId, uri |-> track.uri]

createPresenceTrack(track, presence) ==
  [instanceId |-> track.instanceId, uri |-> track.uri, presence |-> presence]

\* the template string `${side}-${index}`
InstanceId(side, index) == <<side, index>>

\* tracks.map((track, index) => toComparableTrack(track, `${side}-${index}`))
ComparableTracks(tracks, side) ==
  [i \in DOMAIN tracks |-> toComparableTrack(tracks[i], InstanceId(side, i - 1))]

\* for (const track of tracks) counts.set(track.uri, (counts.get(track.uri) ?? 0) + 1)
RECURSIVE CountUris(_, _, _, _)
CountUris(tracks, lo, hi, counts) ==
  IF lo > hi THEN counts
  ELSE IF lo = hi THEN [counts EXCEPT ![tracks[lo].uri] = @ + 1]
  ELSE LET mid == (lo + hi) \div 2
           left == CountUris(tracks, lo, mid, counts)
       IN  IF left = left THEN CountUris(tracks, mid + 1, hi, left) ELSE left

\* a walk over playlist A that matches every URI once at most
RECURSIVE WalkAOncePerUri(_, _, _)
WalkAOncePerUri(tracksA, i, st) ==
  IF i > Len(tracksA) THEN st
  ELSE LET track == tracksA[i]
       IN  IF st.remaining[track.uri] > 0 /\ st.matched[track.uri] = 0
           THEN WalkAOncePerUri(tracksA, i + 1,
                  [st EXCEPT !.remaining[track.uri] = @ - 1,
                             !.matched[track.uri] = @ + 1,
                             !.inBoth = Append(@, track),
                             !.tagged = Append(@, createPresenceTrack(track, "common"))])
           ELSE WalkAOncePerUri(tracksA, i + 1,
                  [st EXCEPT !.inAOnly = Append(@, track),
                             !.tagged = Append(@, createPresenceTrack(track, "uniqueToA"))])

\* the walk over playlist A: st = [remaining, matched, inAOnly, inBoth, tagged]
RECURSIVE WalkA(_, _, _)
WalkA(tracksA, i, st) ==
  IF i > Len(tracksA) THEN st
  ELSE LET track == tracksA[i]
           remaining == st.remaining[track.uri]
       IN  IF remaining > 0
           THEN WalkA(tracksA, i + 1,
                  [st EXCEPT !.remaining[track.uri] = remaining - 1,
                             !.matched[track.uri] = @ + 1,
                             !.inBoth = Append(@, track),
                             !.tagged = Append(@, createPresenceTrack(track, "common"))])
           ELSE WalkA(tracksA, i + 1,
                  [st EXCEPT !.inAOnly = Append(@, track),
                             !.tagged = Append(@, createPresenceTrack(track, "uniqueToA"))])

\* a walk over playlist B that gives the matches of a URI to its last
\* occurrences
RECURSIVE WalkBLastMatch(_, _, _, _)
WalkBLastMatch(tracksB, i, matched, st) ==
  IF i > Len(tracksB) THEN st
  ELSE LET track == tracksB[i]
           toCome == Cardinality({j \in i..Len(tracksB) : tracksB[j].uri = track.uri})
       IN  IF toCome <= matched[track.uri]
           THEN WalkBLastMatch(tracksB, i + 1, matched,
                  [st EXCEPT !.tagged = Append(@, createPresenceTrack(track, "common"))])
           ELSE WalkBLastMatch(tracksB, i + 1, matched,
                  [st EXCEPT !.inBOnly = Append(@, track),
                             !.tagged = Append(@, createPresenceTrack(track, "uniqueToB"))])

\* the walk over playlist B: st = [used, inBOnly, tagged]
RECURSIVE WalkB(_, _, _, _)
WalkB(tracksB, i, matched, st) ==
  IF i > Len(tracksB) THEN st
  ELSE LET track == tracksB[i]
           totalCommon == matched[track.uri]
           usedSoFar == st.used[track.uri]
       IN  IF usedSoFar < totalCommon
           THEN WalkB(tracksB, i + 1, matched,
                  [st EXCEPT !.used[track.uri] = usedSoFar + 1,
                             !.tagged = Append(@, createPresenceTrack(track, "common"))])
           ELSE WalkB(tracksB, i + 1, matched,
                  [st EXCEPT !.inBOnly = Append(@, track),
                             !.tagged = Append(@, createPresenceTrack(track, "uniqueToB"))])

\* a comparison that matches by presence of the URI, not by occurrence
SetBasedComparison(tracksA, tracksB) ==
  LET playlistATracks == ComparableTracks(tracksA, "A")
      playlistBTracks == ComparableTracks(tracksB, "B")
      InA(u) == \E i \in DOMAIN tracksA : tracksA[i].uri = u
      InB(u) == \E i \in DOMAIN tracksB : tracksB[i].uri = u
      Pick(ts, P(_)) == SelectSeq(ts, P)
      AOnly(t) == ~InB(t.uri)
      ABoth(t) == InB(t.uri)
      BOnly(t) == ~InA(t.uri)
  IN  [status |-> "built",
       playlistA |-> [i \in DOMAIN playlistATracks |->
          createPresenceTrack(playlistATracks[i],
            IF InB(playlistATracks[i].uri) THEN "common" ELSE "uniqueToA")],
       playlistB |-> [i \in DOMAIN playlistBTracks |->
          createPresenceTrack(playlistBTracks[i],
            IF InA(playlistBTracks[i].uri) THEN "common" ELSE "uniqueToB")],
       inAOnly |-> Pick(playlistATracks, AOnly),
       inBOnly |-> Pick(playlistBTracks, BOnly),
       inBoth |-> Pick(playlistATracks, ABoth)]

buildPlaylistComparison(tracksA, tracksB) ==
  LET playlistATracks == ComparableTracks(tracksA, "A")
      playlistBTracks == ComparableTracks(tracksB, "B")
      playlistBRemainingCounts == CountUris(playlistBTracks, 1, Len(playlistBTracks), EmptyCounts)
      a == WalkA(playlistATracks, 1,
             [remaining |-> playlistBRemainingCounts, matched |-> EmptyCounts,
              inAOnly |-> <<>>, inBoth |-> <<>>, tagged |-> <<>>])
      b == WalkB(playlistBTracks, 1, a.matched,
             [used |-> EmptyCounts, inBOnly |-> <<>>, tagged |-> <<>>])
  IN  [status |-> "built",
       playlistA |-> a.tagged,
       playlistB |-> b.tagged,
       inAOnly |-> a.inAOnly,
       inBOnly |-> b.inBOnly,
       inBoth |-> a.inBoth]

-----------------------------------------------------------------------------
\* playlists.ts: record mapper and pagination walker

\* a SpotifyTrack, or nothing for an item without a track body; the result
\* is a sequence of zero or one track
toSpotifyTrack(item) ==
  IF item.track = NoTrack THEN <<>> ELSE <<[uri |-> item.track]>>

\* a loop that puts the tracks of the items in front of those collected
PrependTracks(tracks, items, lo, hi) ==
  LET kept == SelectSeq(SubSeq(items, lo, hi), LAMBDA item : item.track # NoTrack)
  IN  [k \in DOMAIN kept |-> [uri |-> kept[k].track]] \o tracks

\* for (const item of items) { const track = toSpotifyTrack(item); if (track) tracks.push(track) }
RECURSIVE PushTracks(_, _, _, _)
PushTracks(tracks, items, lo, hi) ==
  IF lo > hi THEN tracks
  ELSE IF lo = hi THEN tracks \o toSpotifyTrack(items[lo])
  ELSE LET mid == (lo + hi) \div 2
           left == PushTracks(tracks, items, lo, mid)
       IN  IF left = left THEN PushTracks(left, items, mid + 1, hi) ELSE left

\* the remote's page of a playlist starting at offset: PageLimit items and the
\* cursor of the next page (the offset it starts at), NoCursor on the last page
RemotePage(items, offset) ==
  [items |-> SubSeq(items, offset + 1, Min(offset + PageLimit, Len(items))),
   next |-> IF offset + PageLimit < Len(items) THEN offset + PageLimit ELSE NoCursor]

\* the remote's answer to GET /playlists/{id}: the first page embedded
RemotePlaylistResponse(items) ==
  [tracks |-> [items |-> RemotePage(items, 0).items,
               next |-> RemotePage(items, 0).next,
               total |-> Len(items)]]

\* one turn of the while loop of fetchAllPlaylistTracks on
\* st = [nextUrl, tracks, fetches]; the loop is over when nextUrl is null
WalkStep(items, st) ==
  IF st.nextUrl = NoCursor THEN st
  ELSE LET page == RemotePage(items, st.nextUrl)
       IN  [nextUrl |-> page.next,
            tracks |-> PushTracks(st.tracks, page.items, 1, Len(page.items)),
            fetches |-> st.fetches + 1]

\* the while loop, run for at most turns turns
RECURSIVE WalkPages(_, _, _)
WalkPages(items, st, turns) ==
  IF turns = 0 THEN st
  ELSE IF turns = 1 THEN WalkStep(items, st)
  ELSE LET half == turns \div 2
           left == WalkPages(items, st, half)
       IN  IF left = left THEN WalkPages(items, left, turns - half) ELSE left

\* items are the playlist on the remote, initial the response that embeds its
\* first page; the result carries the tracks and the number of page requests.
\* Every page holds an item, so the loop takes fewer than Len(items) turns.
fetchAllPlaylistTracks(items, initial) ==
  LET walk == WalkPages(items,
                [nextUrl |-> initial.tracks.next,
                 tracks |-> PushTracks(<<>>, initial.tracks.items, 1,
                                       Len(initial.tracks.items)),
                 fetches |-> 0],
                Len(items))
  IN  [tracks |-> walk.tracks, fetches |-> walk.fetches]

-----------------------------------------------------------------------------
\* playlists.ts: candidate filtering

\* the loop over candidateUris: st = [remaining, filtered]
RECURSIVE FilterLoop(_, _, _, _)
FilterLoop(candidateUris, lo, hi, st) ==
  IF lo > hi THEN st
  ELSE IF lo = hi
  THEN LET uri == candidateUris[lo]
           remaining == st.remaining[uri]
       IN  IF remaining > 0
           THEN [st EXCEPT !.remaining[uri] = remaining - 1]
           ELSE [st EXCEPT !.filtered = Append(@, uri)]
  ELSE LET mid == (lo + hi) \div 2
           left == FilterLoop(candidateUris, lo, mid, st)
       IN  IF left = left THEN FilterLoop(candidateUris, mid + 1, hi, left) ELSE left

\* a filter that drops every candidate whose URI is present at all
PresenceFilter(items, initial, candidateUris) ==
  LET walk == fetchAllPlaylistTracks(items, initial)
      Absent(u) == \A i \in DOMAIN walk.tracks : walk.tracks[i].uri # u
  IN  [status |-> "done", filtered |-> SelectSeq(candidateUris, Absent),
       fetches |-> walk.fetches]

\* a filter that keeps every candidate
KeepAllCandidates(items, initial, candidateUris) ==
  [status |-> "done", filtered |-> candidateUris,
   fetches |-> fetchAllPlaylistTracks(items, initial).fetches]

\* called with options.initialPlaylist, as its only caller does; the remote
\* playlist does not change during the walk
getFilteredCandidateUris(items, initial, candidateUris) ==
  IF Len(candidateUris) = 0
  THEN [status |-> "done", filtered |-> <<>>, fetches |-> 0]
  ELSE LET walk == fetchAllPlaylistTracks(items, initial)
           remainingExistingCounts == CountUris(walk.tracks, 1, Len(walk.tracks), EmptyCounts)
           loop == FilterLoop(candidateUris, 1, Len(candidateUris),
                     [remaining |-> remainingExistingCounts, filtered |-> <<>>])
       IN  [status |-> "done", filtered |-> loop.filtered, fetches |-> walk.fetches]

-----------------------------------------------------------------------------
\* Values of the request handlers

PlaylistIds == {"pA", "pB"}
\* a request body without a playlist id
NoPlaylistId == ""
AccessTokens == {"at1", "at2"}
Slots == {1, 2}

\* crypto.randomUUID(): the n-th UUID drawn by the process
Uuid(n) == <<"uuid", n>>
\* a request body without an undo token
NoUndoToken == <<>>
\* a well-formed token that no sync ever returned
ForeignToken == <<"uuid", 0>>

\* the snapshot id the remote returns for version n of a playlist; null is <<>>
SnapshotId(playlistId, n) == <<playlistId, n>>
NoSnapshot == <<>>

\* a JSON value of a request body or an argument: an array with its items, or
\* an object that is no array
JsArray(items) == [isArray |-> TRUE, items |-> items]
JsObject == [isArray |-> FALSE, items |-> <<>>]

\* the remote's data on users and playlists: GET /me and the owner and
\* collaborative fields of GET /playlists/{id}
UserOf(accessToken) == IF accessToken = "at1" THEN "u1" ELSE "u2"
OwnerOf(playlistId) == "u1"
IsCollaborative(playlistId) == playlistId = "pB"

-----------------------------------------------------------------------------
\* undo-store.ts

\* sha256 of the access token, hex encoded: one key per access token
\* one key for every session
SharedKey(context) == <<"sha256", "">>

getSessionKey(context) == <<"sha256", context.accessToken>>

MapHas(map, key) == \E e \in map : e.key = key
MapGet(map, key) == (CHOOSE e \in map : e.key = key).value
MapSet(map, key, value) == {e \in map : e.key # key} \cup {[key |-> key, value |-> value]}
MapDelete(map, key) == {e \in map : e.key # key}

\* a store that keeps the entry a session already has
KeepFirstUndoEntry(store, uuid, time, context, playlistId, payload) ==
  IF Len(payload.entries) = 0
  THEN [store |-> store, undoToken |-> NoUndoToken]
  ELSE LET sessionKey == getSessionKey(context)
       IN  [store |-> IF MapHas(store, sessionKey) THEN store
                      ELSE MapSet(store, sessionKey,
                             [undoToken |-> uuid, playlistId |-> playlistId,
                              entries |-> payload.entries,
                              snapshotId |-> payload.snapshotId, createdAt |-> time]),
            undoToken |-> uuid]

\* uuid is the value crypto.randomUUID() returns and time the value of
\* Date.now(); the result is the store afterwards and the token returned
\* (NoUndoToken for null)
setUndoEntry(store, uuid, time, context, playlistId, payload) ==
  IF Len(payload.entries) = 0
  THEN [store |-> store, undoToken |-> NoUndoToken]
  ELSE LET sessionKey == getSessionKey(context)
       IN  [store |-> MapSet(store, sessionKey,
                        [undoToken |-> uuid, playlistId |-> playlistId,
                         entries |-> payload.entries,
                         snapshotId |-> payload.snapshotId, createdAt |-> time]),
            undoToken |-> uuid]

NotFound(store) ==
  [store |-> store, found |-> FALSE, entries |-> <<>>, snapshotId |-> NoSnapshot]

\* a consume that leaves the matched entry in the store
PeekUndoEntry(store, context, playlistId, undoToken) ==
  LET sessionKey == getSessionKey(context)
  IN  IF ~MapHas(store, sessionKey) THEN NotFound(store)
      ELSE LET entry == MapGet(store, sessionKey)
           IN  IF entry.undoToken # undoToken THEN NotFound(store)
               ELSE IF entry.playlistId # playlistId THEN NotFound(store)
               ELSE [store |-> store, found |-> TRUE,
                     entries |-> entry.entries, snapshotId |-> entry.snapshotId]

\* a consume that clears the slot also when the request does not match
ClearingConsumeUndoEntry(store, context, playlistId, undoToken) ==
  LET sessionKey == getSessionKey(context)
  IN  IF ~MapHas(store, sessionKey) THEN NotFound(store)
      ELSE LET entry == MapGet(store, sessionKey)
           IN  IF entry.undoToken # undoToken \/ entry.playlistId # playlistId
               THEN NotFound(MapDelete(store, sessionKey))
               ELSE [store |-> MapDelete(store, sessionKey), found |-> TRUE,
                     entries |-> entry.entries, snapshotId |-> entry.snapshotId]

\* found = FALSE is the null result
consumeUndoEntry(store, context, playlistId, undoToken) ==
  LET sessionKey == getSessionKey(context)
  IN  IF ~MapHas(store, sessionKey) THEN NotFound(store)
      ELSE LET entry == MapGet(store, sessionKey)
           IN  IF entry.undoToken # undoToken THEN NotFound(store)
               ELSE IF entry.playlistId # playlistId THEN NotFound(store)
               ELSE [store |-> MapDelete(store, sessionKey), found |-> TRUE,
                     entries |-> entry.entries, snapshotId |-> entry.snapshotId]

-----------------------------------------------------------------------------
\* The remote playlist resource

\* POST /playlists/{id}/tracks {uris}: the tracks are appended
RemoteAdd(items, uris) == items \o [i \in DOMAIN uris |-> [track |-> uris[i]]]

\* the positions named by a DELETE body
PayloadPositions(tracks) ==
  UNION {{tracks[k].positions[j] : j \in DOMAIN tracks[k].positions} : k \in DOMAIN tracks}

\* the remote accepts a DELETE when every named position holds the named URI
RemoteDeleteValid(items, tracks) ==
  \A k \in DOMAIN tracks : \A j \in DOMAIN tracks[k].positions :
    LET pos == tracks[k].positions[j]
    IN  pos >= 0 /\ pos < Len(items) /\ items[pos + 1].track = tracks[k].uri

\* DELETE /playlists/{id}/tracks {tracks: [{uri, positions}]}: the items at
\* the named positions of the playlist as it is now are removed
RemoteDelete(items, tracks) ==
  LET positions == PayloadPositions(tracks)
      kept == SelectSeq([i \in DOMAIN items |-> [position |-> i - 1, item |-> items[i]]],
                        LAMBDA e : e.position \notin positions)
  IN  [i \in DOMAIN kept |-> kept[i].item]

-----------------------------------------------------------------------------
\* playlists.ts: batched mutation

\* chunkArray(uris, 100)
AddChunkSize == 100
\* sortedEntries.slice(processed, processed + 100)
RemoveBatchSize == 100

RECURSIVE ChunkFrom(_, _, _, _)
ChunkFrom(items, i, chunkSize, chunks) ==
  IF i >= Len(items) THEN chunks
  ELSE ChunkFrom(items, i + chunkSize, chunkSize,
         Append(chunks, SubSeq(items, i + 1, Min(i + chunkSize, Len(items)))))

\* chunks of the whole list size, however long it is
OneChunk(items, chunkSize) == IF Len(items) = 0 THEN <<>> ELSE <<items>>

\* the chunks from the last to the first
LastChunkFirst(items, chunkSize) ==
  LET chunks == ChunkFrom(items, 0, chunkSize, <<>>)
  IN  [k \in DOMAIN chunks |-> chunks[Len(chunks) + 1 - k]]

chunkArray(items, chunkSize) == ChunkFrom(items, 0, chunkSize, <<>>)

\* if (chunk.length === 0) continue
RECURSIVE SkipEmptyChunks(_)
SkipEmptyChunks(chunks) ==
  IF chunks # <<>> /\ Len(Head(chunks)) = 0 THEN SkipEmptyChunks(Tail(chunks)) ELSE chunks

\* chunk.forEach((uri, index) => addedEntries.push({ uri, position: nextPosition + index }))
ChunkEntries(chunk, nextPosition) ==
  [i \in DOMAIN chunk |-> [uri |-> chunk[i], position |-> nextPosition + (i - 1)]]

\* [...entries].sort((a, b) => a.position - b.position), a stable sort
RECURSIVE SortFrom(_, _, _, _)
SortFrom(entries, lo, hi, sorted) ==
  IF lo > hi THEN sorted
  ELSE IF lo = hi
  THEN LET e == entries[lo]
           k == Cardinality({j \in DOMAIN sorted : sorted[j].position <= e.position})
       IN  SubSeq(sorted, 1, k) \o <<e>> \o SubSeq(sorted, k + 1, Len(sorted))
  ELSE LET mid == (lo + hi) \div 2
           left == SortFrom(entries, lo, mid, sorted)
       IN  IF left = left THEN SortFrom(entries, mid + 1, hi, left) ELSE left

\* entries left in the order of the request
Unsorted(entries) == entries

SortByPosition(entries) == SortFrom(entries, 1, Len(entries), <<>>)

\* positions.sort((a, b) => a - b)
RECURSIVE SortNumbersFrom(_, _, _, _)
SortNumbersFrom(numbers, lo, hi, sorted) ==
  IF lo > hi THEN sorted
  ELSE IF lo = hi
  THEN LET k == Cardinality({j \in DOMAIN sorted : sorted[j] <= numbers[lo]})
       IN  SubSeq(sorted, 1, k) \o <<numbers[lo]>> \o SubSeq(sorted, k + 1, Len(sorted))
  ELSE LET mid == (lo + hi) \div 2
           left == SortNumbersFrom(numbers, lo, mid, sorted)
       IN  IF left = left THEN SortNumbersFrom(numbers, mid + 1, hi, left) ELSE left

SortNumbers(numbers) == SortNumbersFrom(numbers, 1, Len(numbers), <<>>)

\* the raw position, not corrected for the entries already removed
RawPosition(entry, processed) == entry.position

\* const adjustedPosition = entry.position - processed
AdjustedPosition(entry, processed) == entry.position - processed

\* batchEntries.forEach(...): the Map uri -> positions, as the sequence of its
\* entries in insertion order
RECURSIVE GroupByUri(_, _, _, _, _)
GroupByUri(batchEntries, lo, hi, processed, payloadMap) ==
  IF lo > hi THEN payloadMap
  ELSE IF lo = hi
  THEN LET entry == batchEntries[lo]
           adjustedPosition == AdjustedPosition(entry, processed)
           at == {k \in DOMAIN payloadMap : payloadMap[k].uri = entry.uri}
       IN  IF at = {}
           THEN Append(payloadMap, [uri |-> entry.uri, positions |-> <<adjustedPosition>>])
           ELSE LET k == CHOOSE k \in at : TRUE
                IN  [payloadMap EXCEPT ![k].positions = Append(@, adjustedPosition)]
  ELSE LET mid == (lo + hi) \div 2
           left == GroupByUri(batchEntries, lo, mid, processed, payloadMap)
       IN  IF left = left THEN GroupByUri(batchEntries, mid + 1, hi, processed, left)
           ELSE left

\* sortedEntries.slice(processed, processed + 100)
BatchEntries(sortedEntries, processed) ==
  SubSeq(sortedEntries, processed + 1, Min(processed + RemoveBatchSize, Len(sortedEntries)))

\* tracksPayload of one batch
TracksPayload(batchEntries, processed) ==
  LET payloadMap == GroupByUri(batchEntries, 1, Len(batchEntries), processed, <<>>)
  IN  [k \in DOMAIN payloadMap |->
         [uri |-> payloadMap[k].uri, positions |-> SortNumbers(payloadMap[k].positions)]]

\* removedUris.push(...Array(positions.length).fill(uri)) for every group
RECURSIVE PushRemoved(_, _, _)
PushRemoved(removedUris, tracksPayload, k) ==
  IF k > Len(tracksPayload) THEN removedUris
  ELSE PushRemoved(
         removedUris \o [j \in DOMAIN tracksPayload[k].positions |-> tracksPayload[k].uri],
         tracksPayload, k + 1)

-----------------------------------------------------------------------------
\* Route handlers.  A handler runs from one await of a remote mutation to the
\* next in one step; the reads of one handler (GET /me, GET /playlists/{id}
\* and the pages that follow it) see one version of the playlist.

\* the handler state of a slot; pc is "adding" while a POST of
\* addTracksToPlaylist is awaited, "removing" while a DELETE of
\* removeTracksFromPlaylist is awaited and "done" once the response is sent
NewCall(kind, session, playlistId) ==
  [kind |-> kind, seq |-> now + 1, pc |-> "done",
   session |-> session, playlistId |-> playlistId,
   \* request body
   trackUris |-> <<>>, entries |-> <<>>, undoToken |-> NoUndoToken,
   \* getFilteredCandidateUris
   filteredUris |-> <<>>, fetches |-> 0,
   \* addTracksToPlaylist
   chunks |-> <<>>, addedUris |-> <<>>, addedEntries |-> <<>>,
   snapshotId |-> NoSnapshot, nextPosition |-> 0,
   \* removeTracksFromPlaylist
   sortedEntries |-> <<>>, processed |-> 0, removedUris |-> <<>>,
   currentSnapshotId |-> NoSnapshot, options |-> NoSnapshot,
   \* response
   status |-> 0, error |-> "", resultToken |-> NoUndoToken,
   \* history: the mutation requests sent, the playlist and the store when the
   \* handler read them, whether the undo request matched the stored entry,
   \* whether trackUris is a selection of what the comparison shows as missing,
   \* the playlist after the handler's last mutation request, whether no other
   \* handler changed the playlist since this one read it, the store after
   \* consumeUndoEntry, the number of undo tokens issued when the request came
   \* in, whether the token presented had been consumed before, the number
   \* of mutation requests issued (sent holds those that were answered)
   issued |-> 0,
   sent |-> <<>>, before |-> <<>>, snapAtRead |-> 0, storeAtRead |-> {},
   matched |-> FALSE, displayedMissing |-> FALSE, after |-> <<>>, alone |-> TRUE,
   storeAfter |-> {}, ledgerAtRead |-> Len(ledger), consumedBefore |-> FALSE]

IdleCall ==
  [kind |-> "idle", seq |-> 0, pc |-> "done",
   session |-> "", playlistId |-> NoPlaylistId,
   trackUris |-> <<>>, entries |-> <<>>, undoToken |-> NoUndoToken,
   filteredUris |-> <<>>, fetches |-> 0,
   chunks |-> <<>>, addedUris |-> <<>>, addedEntries |-> <<>>,
   snapshotId |-> NoSnapshot, nextPosition |-> 0,
   sortedEntries |-> <<>>, processed |-> 0, removedUris |-> <<>>,
   currentSnapshotId |-> NoSnapshot, options |-> NoSnapshot,
   status |-> 0, error |-> "", resultToken |-> NoUndoToken,
   issued |-> 0,
   sent |-> <<>>, before |-> <<>>, snapAtRead |-> 0, storeAtRead |-> {},
   matched |-> FALSE, displayedMissing |-> FALSE, after |-> <<>>, alone |-> TRUE,
   storeAfter |-> {}, ledgerAtRead |-> 0, consumedBefore |-> FALSE]

Respond(call, status, error) ==
  [call EXCEPT !.pc = "done", !.status = status, !.error = error]

\* the slot a new request runs in: one whose handler has responded, the one
\* that responded first
FreeSlots == {s \in Slots : calls[s].pc = "done"}
FreeSlot == CHOOSE s \in FreeSlots : \A t \in FreeSlots :
              calls[s].seq < calls[t].seq \/ (calls[s].seq = calls[t].seq /\ s <= t)

\* playlist-sync.tsx: comparison.playlistA.tracks.filter(presence === "uniqueToA")
missingTracks(payload) ==
  LET Missing(track) == track.presence = "uniqueToA"
  IN  SelectSeq(payload.playlistA, Missing)

\* playlist-sync.tsx: missingTracks.filter(selectedTrackIds.has(instanceId))
selectedTrackDetails(payload, selectedTrackIds) ==
  LET Selected(track) == track.instanceId \in selectedTrackIds
  IN  SelectSeq(missingTracks(payload), Selected)

\* history: trackUris is what the client sends for some selection of the
\* tracks its comparison shows as missing in playlistId, and the playlist has
\* not changed since that comparison
IsDisplayedMissing(playlistId, trackUris) ==
  /\ comparison.status = "built"
  /\ playlistId = "pB"
  /\ comparedSnap[playlistId] = snap[playlistId]
  /\ \E ids \in SUBSET {t.instanceId : t \in {comparison.inAOnly[i] : i \in DOMAIN comparison.inAOnly}} :
       trackUris = UrisOf(selectedTrackDetails(comparison, ids))

\* addTracksToPlaylist up to its first await; the route's only caller passes
\* startingPosition.  Without URIs it returns at once, the sync route finds
\* addedEntries empty, records no undo entry and responds.
StartAdd(call, uris, startingPosition) ==
  IF Len(uris) = 0
  THEN Respond(call, 200, "")
  ELSE [call EXCEPT !.pc = "adding",
                    !.issued = 1,
                    !.chunks = SkipEmptyChunks(chunkArray(uris, AddChunkSize)),
                    !.nextPosition = startingPosition]

\* removeTracksFromPlaylist up to its first await.  entries is the argument
\* as passed: of an object that is no array, entries.length is undefined
\* (not 0) and the spread [...entries] throws a TypeError, which the routes
\* answer with 500.
StartRemove(call, entries, snapshotId) ==
  IF entries.isArray /\ Len(entries.items) = 0
  THEN Respond([call EXCEPT !.currentSnapshotId = snapshotId, !.options = snapshotId],
               200, "")
  ELSE IF ~entries.isArray
  THEN Respond([call EXCEPT !.options = snapshotId], 500, "Unexpected server error")
  ELSE [call EXCEPT !.pc = "removing",
                    !.issued = 1,
                    !.options = snapshotId,
                    !.sortedEntries = SortByPosition(entries.items),
                    !.processed = 0,
                    !.currentSnapshotId = snapshotId]

\* POST /api/spotify/sync up to the first POST to the remote
SyncStart(session, targetPlaylistId, trackUris) ==
  LET c0 == [NewCall("sync", session, targetPlaylistId) EXCEPT !.trackUris = trackUris.items]
  IN  IF targetPlaylistId = NoPlaylistId
      THEN Respond(c0, 400, "targetPlaylistId is required")
      ELSE IF ~trackUris.isArray
      THEN Respond(c0, 400, "trackUris must be an array")
      ELSE LET currentUser == UserOf(session)
               items == remote[targetPlaylistId]
               playlistDetails == RemotePlaylistResponse(items)
               isCollaborative == IsCollaborative(targetPlaylistId)
               isOwned == OwnerOf(targetPlaylistId) = currentUser
               c1 == [c0 EXCEPT !.before = items, !.after = items,
                                !.snapAtRead = snap[targetPlaylistId],
                                !.storeAtRead = sessionUndoStore,
                                !.displayedMissing =
                                   IsDisplayedMissing(targetPlaylistId, trackUris.items)]
           IN  IF ~isCollaborative /\ ~isOwned
               THEN Respond(c1, 403,
                      "You can only sync into playlists you own or that are collaborative.")
               ELSE LET f == getFilteredCandidateUris(items, playlistDetails, trackUris.items)
                    IN  StartAdd([c1 EXCEPT !.filteredUris = f.filtered, !.fetches = f.fetches],
                                 f.filtered, playlistDetails.tracks.total)

\* POST /api/spotify/undo.  consumeUndoEntry returns the object
\* {entries, snapshotId}; the route tests its .length and hands the object
\* itself to removeTracksFromPlaylist, without options.
UndoRun(session, targetPlaylistId, undoToken) ==
  LET c0 == [NewCall("undo", session, targetPlaylistId) EXCEPT
               !.undoToken = undoToken,
               !.storeAtRead = sessionUndoStore,
               !.storeAfter = sessionUndoStore,
               !.consumedBefore = \E i \in DOMAIN ledger :
                                    ledger[i].undoToken = undoToken /\ ledger[i].consumed > 0,
               !.before = IF targetPlaylistId \in PlaylistIds
                          THEN remote[targetPlaylistId] ELSE <<>>,
               !.after = IF targetPlaylistId \in PlaylistIds
                         THEN remote[targetPlaylistId] ELSE <<>>,
               !.snapAtRead = IF targetPlaylistId \in PlaylistIds
                              THEN snap[targetPlaylistId] ELSE 0]
  IN  IF targetPlaylistId = NoPlaylistId
      THEN [call |-> Respond(c0, 400, "targetPlaylistId is required"),
            store |-> sessionUndoStore]
      ELSE IF undoToken = NoUndoToken
      THEN [call |-> Respond(c0, 400, "undoToken is required"), store |-> sessionUndoStore]
      ELSE LET uris == consumeUndoEntry(sessionUndoStore, [accessToken |-> session],
                                        targetPlaylistId, undoToken)
           IN  IF ~uris.found
               THEN [call |-> Respond([c0 EXCEPT !.storeAfter = uris.store],
                                      404, "No undoable sync found"),
                     store |-> uris.store]
               ELSE [call |-> StartRemove([c0 EXCEPT !.matched = TRUE,
                                                     !.entries = uris.entries,
                                                     !.storeAfter = uris.store],
                                          JsObject, NoSnapshot),
                     store |-> uris.store]

\* entry.uri.trim() on the URI texts of the model
Trim(text) ==
  CASE text = " X" -> "X" [] text = " Z" -> "Z" [] text = " " -> "" [] OTHER -> text

\* a raw entry of the remove request: its position is halves / 2 when it is a
\* number; Math.floor of it is halves \div 2
RawEntry(uri, isNumber, halves) == [uri |-> uri, isNumber |-> isNumber, halves |-> halves]

\* the map callback of the route: the entry with its URI trimmed and its
\* position floored, or nothing (null) for an entry that is not valid
NormalizeEntry(entry) ==
  LET uri == Trim(entry.uri)
      position == entry.halves \div 2
  IN  IF uri = "" \/ ~entry.isNumber \/ position < 0 THEN <<>>
      ELSE <<[uri |-> uri, position |-> position]>>

\* entries.map(...).filter(entry !== null)
NormalizeEntries(entries) ==
  LET mapped == [i \in DOMAIN entries |-> NormalizeEntry(entries[i])]
      kept == SelectSeq(mapped, LAMBDA e : e # <<>>)
  IN  [i \in DOMAIN kept |-> kept[i][1]]

\* POST /api/spotify/playlists/remove up to the first DELETE to the remote
RemoveStart(session, playlistId, entries) ==
  LET c0 == NewCall("remove", session, playlistId)
  IN  IF playlistId = NoPlaylistId
      THEN Respond(c0, 400, "playlistId is required")
      ELSE IF ~entries.isArray
      THEN Respond(c0, 400, "entries must be an array")
      ELSE LET normalizedEntries == NormalizeEntries(entries.items)
           IN  IF Len(normalizedEntries) = 0
               THEN Respond(c0, 400, "Provide at least one valid entry to remove.")
               ELSE LET currentUser == UserOf(session)
                        isCollaborative == IsCollaborative(playlistId)
                        isOwned == OwnerOf(playlistId) = currentUser
                        c1 == [c0 EXCEPT !.entries = normalizedEntries,
                                         !.before = remote[playlistId],
                                         !.after = remote[playlistId],
                                         !.snapAtRead = snap[playlistId]]
                    IN  IF ~isCollaborative /\ ~isOwned
                        THEN Respond(c1, 403,
                               "You can only remove tracks from playlists you own or that are collaborative.")
                        ELSE StartRemove(c1, JsArray(normalizedEntries), NoSnapshot)

-----------------------------------------------------------------------------
\* Actions of the server, the remote and the client

CanStart == now < MaxRequests /\ FreeSlots # {}

\* a sync route that clears the undo slot of the session when it added nothing
ClearingPostSync(session, targetPlaylistId, trackUris) ==
  /\ CanStart
  /\ LET c == SyncStart(session, targetPlaylistId, trackUris)
     IN  /\ calls' = [calls EXCEPT ![FreeSlot] = c]
         /\ sessionUndoStore' =
              IF c.pc = "done" /\ c.status = 200
              THEN MapDelete(sessionUndoStore, getSessionKey([accessToken |-> session]))
              ELSE sessionUndoStore
  /\ now' = now + 1
  /\ UNCHANGED <<diffVars, fetcherVars, walkerVars, twoWayVars, loaderVars, filterVars, clientVars, remoteVars, ledger>>

PostSync(session, targetPlaylistId, trackUris) ==
  /\ CanStart
  /\ calls' = [calls EXCEPT ![FreeSlot] = SyncStart(session, targetPlaylistId, trackUris)]
  /\ now' = now + 1
  /\ UNCHANGED <<diffVars, fetcherVars, walkerVars, twoWayVars, loaderVars, filterVars, clientVars, remoteVars, sessionUndoStore, ledger>>

\* the remote applies the POST awaited by the handler in slot s and the
\* handler runs on: to its next POST, or through setUndoEntry to the response
AddBatchOk(s) ==
  /\ calls[s].pc = "adding"
  /\ LET c == calls[s]
         playlistId == c.playlistId
         chunk == Head(c.chunks)
         version == snap[playlistId] + 1
         c1 == [c EXCEPT !.snapshotId = SnapshotId(playlistId, version),
                         !.addedUris = @ \o chunk,
                         !.addedEntries = @ \o ChunkEntries(chunk, c.nextPosition),
                         !.nextPosition = @ + Len(chunk),
                         !.chunks = SkipEmptyChunks(Tail(@)),
                         !.after = RemoteAdd(remote[playlistId], chunk),
                         !.alone = @ /\ snap[playlistId] = c.snapAtRead + Len(c.sent),
                         !.sent = Append(@, [method |-> "POST", playlistId |-> playlistId,
                                             uris |-> chunk, tracks |-> <<>>,
                                             snapshotId |-> NoSnapshot])]
         undoResult == IF Len(c1.addedEntries) > 0
                       THEN setUndoEntry(sessionUndoStore, Uuid(Len(ledger) + 1), now,
                              [accessToken |-> c.session], playlistId,
                              [entries |-> c1.addedEntries, snapshotId |-> c1.snapshotId])
                       ELSE [store |-> sessionUndoStore, undoToken |-> NoUndoToken]
     IN  /\ remote' = [remote EXCEPT ![playlistId] = RemoteAdd(@, chunk)]
         /\ snap' = [snap EXCEPT ![playlistId] = version]
         /\ IF c1.chunks # <<>>
            THEN /\ calls' = [calls EXCEPT ![s] = [c1 EXCEPT !.issued = @ + 1]]
                 /\ UNCHANGED <<sessionUndoStore, ledger>>
            ELSE /\ calls' = [calls EXCEPT ![s] =
                                Respond([c1 EXCEPT !.resultToken = undoResult.undoToken], 200, "")]
                 /\ sessionUndoStore' = undoResult.store
                 /\ ledger' = IF undoResult.undoToken = NoUndoToken THEN ledger
                              ELSE Append(ledger,
                                     [undoToken |-> undoResult.undoToken,
                                      session |-> c.session, playlistId |-> playlistId,
                                      before |-> c.before, snapBefore |-> c.snapAtRead,
                                      snapAfter |-> version, added |-> c1.addedUris,
                                      entries |-> c1.addedEntries, alone |-> c1.alone,
                                      consumed |-> 0])
  /\ UNCHANGED <<diffVars, fetcherVars, walkerVars, twoWayVars, loaderVars, filterVars, clientVars, now, faults>>

\* a loop that swallows the error of a batch and goes on with the next one
BatchSkipped(call, request) ==
  LET c1 == [call EXCEPT !.sent = Append(@, request)]
  IN  IF call.pc = "adding" /\ Len(call.chunks) > 1
      THEN [c1 EXCEPT !.chunks = Tail(@), !.issued = @ + 1]
      ELSE IF call.pc = "removing" /\ call.processed + RemoveBatchSize < Len(call.sortedEntries)
      THEN [c1 EXCEPT !.processed = @ + RemoveBatchSize, !.issued = @ + 1]
      ELSE Respond(c1, 200, "")

\* the fetcher throws a SpotifyApiError for the request awaited: the error
\* leaves the loop, the function and the try block of the route, whose catch
\* answers with the status and the status text of the error
BatchFailed(call, request) ==
  Respond([call EXCEPT !.sent = Append(@, request)], 503, "Service Unavailable")

\* the remote fails the POST awaited in slot s
AddBatchFail(s) ==
  /\ calls[s].pc = "adding"
  /\ faults < MaxFaults
  /\ faults' = faults + 1
  /\ calls' = [calls EXCEPT ![s] =
       BatchFailed(calls[s], [method |-> "POST",
                  playlistId |-> calls[s].playlistId, uris |-> Head(calls[s].chunks),
                  tracks |-> <<>>, snapshotId |-> NoSnapshot])]
  /\ UNCHANGED <<diffVars, fetcherVars, walkerVars, twoWayVars, loaderVars, filterVars, clientVars, remote, snap, sessionUndoStore, now, ledger>>

PostUndo(session, targetPlaylistId, undoToken) ==
  /\ CanStart
  /\ LET r == UndoRun(session, targetPlaylistId, undoToken)
     IN  /\ calls' = [calls EXCEPT ![FreeSlot] = r.call]
         /\ sessionUndoStore' = r.store
         /\ ledger' = [i \in DOMAIN ledger |->
                         IF r.call.matched /\ ledger[i].undoToken = undoToken
                         THEN [ledger[i] EXCEPT !.consumed = @ + 1] ELSE ledger[i]]
  /\ now' = now + 1
  /\ UNCHANGED <<diffVars, fetcherVars, walkerVars, twoWayVars, loaderVars, filterVars, clientVars, remoteVars>>

PostRemove(session, playlistId, entries) ==
  /\ CanStart
  /\ calls' = [calls EXCEPT ![FreeSlot] = RemoveStart(session, playlistId, entries)]
  /\ now' = now + 1
  /\ UNCHANGED <<diffVars, fetcherVars, walkerVars, twoWayVars, loaderVars, filterVars, clientVars, remoteVars, sessionUndoStore, ledger>>

\* a DELETE request that carries the snapshot id of the options every time
StaleTokenDeleteRequest(c) ==
  [method |-> "DELETE", playlistId |-> c.playlistId, uris |-> <<>>,
   tracks |-> TracksPayload(BatchEntries(c.sortedEntries, c.processed), c.processed),
   snapshotId |-> c.options]

\* the DELETE request of the batch the handler in slot s is at
DeleteRequest(c) ==
  [method |-> "DELETE", playlistId |-> c.playlistId, uris |-> <<>>,
   tracks |-> TracksPayload(BatchEntries(c.sortedEntries, c.processed), c.processed),
   snapshotId |-> c.currentSnapshotId]

\* the remote answers the DELETE awaited by the handler in slot s and the
\* handler runs on: to its next DELETE or to the response
RemoveBatchOk(s) ==
  /\ calls[s].pc = "removing"
  /\ LET c == calls[s]
         playlistId == c.playlistId
         batchEntries == BatchEntries(c.sortedEntries, c.processed)
         request == DeleteRequest(c)
         tracksPayload == request.tracks
         version == snap[playlistId] + 1
         c1 == [c EXCEPT !.currentSnapshotId = SnapshotId(playlistId, version),
                         !.removedUris = PushRemoved(@, tracksPayload, 1),
                         !.processed = @ + Len(batchEntries),
                         !.after = RemoteDelete(remote[playlistId], tracksPayload),
                         !.alone = @ /\ snap[playlistId] = c.snapAtRead + Len(c.sent),
                         !.sent = Append(@, request)]
     IN  IF ~RemoteDeleteValid(remote[playlistId], tracksPayload)
         THEN /\ calls' = [calls EXCEPT ![s] =
                    Respond([c EXCEPT !.sent = Append(@, request),
                                      !.after = remote[playlistId],
                                      !.alone = @ /\ snap[playlistId] = c.snapAtRead + Len(c.sent)],
                            400, "Bad Request")]
              /\ UNCHANGED <<remote, snap>>
         ELSE /\ remote' = [remote EXCEPT ![playlistId] = RemoteDelete(@, tracksPayload)]
              /\ snap' = [snap EXCEPT ![playlistId] = version]
              /\ calls' = [calls EXCEPT ![s] =
                    IF c1.processed < Len(c1.sortedEntries)
                    THEN [c1 EXCEPT !.issued = @ + 1]
                    ELSE Respond(c1, 200, "")]
  /\ UNCHANGED <<diffVars, fetcherVars, walkerVars, twoWayVars, loaderVars, filterVars, clientVars, sessionUndoStore, now, ledger, faults>>

RemoveBatchFail(s) ==
  /\ calls[s].pc = "removing"
  /\ faults < MaxFaults
  /\ faults' = faults + 1
  /\ calls' = [calls EXCEPT ![s] = BatchFailed(calls[s], DeleteRequest(calls[s]))]
  /\ UNCHANGED <<diffVars, fetcherVars, walkerVars, twoWayVars, loaderVars, filterVars, clientVars, remote, snap, sessionUndoStore, now, ledger>>

\* the tracks the client loads for a playlist
LoadedTracks(playlistId) ==
  fetchAllPlaylistTracks(remote[playlistId], RemotePlaylistResponse(remote[playlistId])).tracks

\* handleCompare / refreshComparison of the client, with playlist A = pA and
\* playlist B = pB, both loaded from one version of the remote; the load is
\* a request to the server like the others
ClientCompare ==
  /\ now < MaxRequests
  /\ now' = now + 1
  /\ comparison' = buildPlaylistComparison(LoadedTracks("pA"), LoadedTracks("pB"))
  /\ comparedSnap' = snap
  /\ UNCHANGED <<diffVars, fetcherVars, walkerVars, twoWayVars, loaderVars, filterVars, remoteVars, sessionUndoStore, calls, ledger>>

\* handleConfirmSync of the client, signed in with session "at1": the URIs
\* of the selected missing tracks are posted to the sync route for playlist B
ClientSync(selectedTrackIds) ==
  /\ comparison.status = "built"
  /\ Len(selectedTrackDetails(comparison, selectedTrackIds)) > 0
  /\ PostSync("at1", "pB", JsArray(UrisOf(selectedTrackDetails(comparison, selectedTrackIds))))

-----------------------------------------------------------------------------
\* client.ts: the rate-limited fetcher

\* const maxRetries = 5
maxRetries == 5

\* SPOTIFY_API_URL
ApiUrl == "https://api.spotify.com/v1"

\* a path handed to the fetcher: an absolute URL, or a relative path with or
\* without a leading slash; a text is the sequence of its parts
AbsolutePath == <<"https://", "api.spotify.com/v1/playlists/pA/tracks?offset=2">>
SlashPath == <<"/", "me">>
BarePath == <<"playlists/pA/tracks">>

buildSpotifyUrl(path) ==
  IF Head(path) \in {"http://", "https://"} THEN path
  ELSE IF Head(path) = "/" THEN <<ApiUrl>> \o path
  ELSE <<ApiUrl, "/">> \o path

\* the Retry-After header of a response: absent, a number of seconds given
\* in units of 0.0001 s, an HTTP date given in ms on the clock of Date.now(),
\* or a text that is neither
NoRetryAfter == [kind |-> "absent", value |-> 0]
RetryAfterNumber(units) == [kind |-> "number", value |-> units]
RetryAfterDate(ms) == [kind |-> "date", value |-> ms]
RetryAfterText == [kind |-> "text", value |-> 0]

Max(a, b) == IF a > b THEN a ELSE b

\* Math.round(asNumber * 1_000) for asNumber = units / 10000: the nearest
\* integer to units / 10, a half rounded up
RoundMs(units) == (units + 5) \div 10

\* a backoff that does not read the header
FixedBackoff(retryAfter, time) == 1000

\* the delay in ms; time is the value of Date.now()
parseRetryAfterHeader(retryAfter, time) ==
  CASE retryAfter.kind = "absent" -> 1000
    [] retryAfter.kind = "number" -> Max(1, RoundMs(retryAfter.value))
    [] retryAfter.kind = "date" -> Max(1000, retryAfter.value - time)
    [] OTHER -> 1000

\* a response body: its text, and whether the text is JSON
Body(text, isJson) == [text |-> text, isJson |-> isJson]

\* JSON.parse of a text that is JSON
JsonParse(text) == <<"parsed", text>>

\* JSON.parse(text), or the text itself when that throws
safeParseErrorBody(body) == IF body.isJson THEN JsonParse(body.text) ELSE body.text

\* the status text the remote sends with a status
StatusText(status) ==
  CASE status = 200 -> "OK"
    [] status = 204 -> "No Content"
    [] status = 404 -> "Not Found"
    [] status = 429 -> "Too Many Requests"
    [] OTHER -> "Internal Server Error"

Response(status, retryAfter, jsonContentType, body) ==
  [status |-> status, statusText |-> StatusText(status), retryAfter |-> retryAfter,
   jsonContentType |-> jsonContentType, body |-> body]

\* response.ok
IsOk(response) == response.status >= 200 /\ response.status <= 299

NoOutcome == [kind |-> "none", status |-> 0, statusText |-> "", value |-> <<>>]

\* throw new SpotifyApiError(response.status, response.statusText, details)
SpotifyApiError(response) ==
  [kind |-> "throw", status |-> response.status, statusText |-> response.statusText,
   value |-> safeParseErrorBody(response.body)]

\* the value a call returns for an ok response: undefined (<<>>) for 204,
\* the parsed body for a JSON content type, the text otherwise
Returned(response) ==
  [kind |-> "return", status |-> 0, statusText |-> "",
   value |-> IF response.status = 204 THEN <<>>
             ELSE IF response.jsonContentType THEN JsonParse(response.body.text)
             ELSE response.body.text]

\* no call of the fetcher yet
NoFetch ==
  [pc |-> "idle", url |-> <<>>, authorization |-> <<>>, attempt |-> 0,
   requests |-> 0, sentAt |-> <<>>, delays |-> <<>>, response |-> Response(0, NoRetryAfter, FALSE, Body("", FALSE)),
   outcome |-> NoOutcome]

\* the test of a fetcher that allows one retry more
RetriesExhaustedLate(attempt) == attempt > maxRetries

\* the test of a fetcher that counts the first request among the five
RetriesExhaustedEarly(attempt) == attempt + 1 >= maxRetries

\* if (attempt >= maxRetries)
RetriesExhausted(attempt) == attempt >= maxRetries

\* the test of a fetcher that also retries on server errors
RetriedAlsoOnError(response) == response.status = 429 \/ response.status >= 500

\* if (response.status === 429)
IsRateLimited(response) == response.status = 429

\* the body of the while loop after `await fetch(...)` has resolved with
\* response: the call sleeps before its next request, throws or returns
AfterResponse(call, response, time) ==
  IF IsRateLimited(response)
  THEN IF RetriesExhausted(call.attempt)
       THEN [call EXCEPT !.pc = "done", !.response = response,
                         !.outcome = SpotifyApiError(response)]
       ELSE [call EXCEPT !.pc = "sleeping", !.response = response,
                         !.attempt = @ + 1,
                         !.delays = Append(@, parseRetryAfterHeader(response.retryAfter, time))]
  ELSE IF ~IsOk(response)
  THEN [call EXCEPT !.pc = "done", !.response = response,
                    !.outcome = SpotifyApiError(response)]
  ELSE [call EXCEPT !.pc = "done", !.response = response, !.outcome = Returned(response)]

\* how the remote answers: rateLimited is the number of 429 responses it
\* gives first (Forever: every response is a 429), retryAfter and body are
\* the Retry-After header and the body of these, final is the response it
\* gives after them, answered the number of responses it has given
Forever == -1
NoRemotePlan ==
  [rateLimited |-> 0, retryAfter |-> NoRetryAfter, body |-> Body("", FALSE),
   final |-> Response(0, NoRetryAfter, FALSE, Body("", FALSE)), answered |-> 0]

\* the next response of the remote is a 429
StillRateLimited(plan) == plan.rateLimited = Forever \/ plan.answered < plan.rateLimited

\* a call of the fetcher: it runs to its first `await fetch(...)`
FetchStart(context, path, plan) ==
  /\ fetchCall.pc = "idle"
  /\ fetchCall' = [NoFetch EXCEPT !.pc = "inflight",
                                  !.url = buildSpotifyUrl(path),
                                  !.authorization = <<context.tokenType, context.accessToken>>,
                                  !.requests = 1,
                                  !.sentAt = <<now>>]
  /\ fetchRemote' = plan
  /\ UNCHANGED <<diffVars, walkerVars, twoWayVars, loaderVars, filterVars, clientVars, remoteVars, serverVars>>

\* the 429 response of the remote
RateLimitResponse(plan) == Response(429, plan.retryAfter, plan.body.isJson, plan.body)

\* the remote answers the request in flight with a 429
RemoteRateLimits ==
  /\ fetchCall.pc = "inflight"
  /\ StillRateLimited(fetchRemote)
  /\ fetchCall' = AfterResponse(fetchCall, RateLimitResponse(fetchRemote), now)
  /\ fetchRemote' = [fetchRemote EXCEPT !.answered = @ + 1]
  /\ UNCHANGED <<diffVars, walkerVars, twoWayVars, loaderVars, filterVars, clientVars, remoteVars, serverVars>>

\* the remote answers the request in flight with its final response
RemoteAnswers ==
  /\ fetchCall.pc = "inflight"
  /\ ~StillRateLimited(fetchRemote)
  /\ fetchCall' = AfterResponse(fetchCall, fetchRemote.final, now)
  /\ fetchRemote' = [fetchRemote EXCEPT !.answered = @ + 1]
  /\ UNCHANGED <<diffVars, walkerVars, twoWayVars, loaderVars, filterVars, clientVars, remoteVars, serverVars>>

\* the timer of `await delay(retryAfterMs)` fires, retryAfterMs after it was
\* set or late ms later: the loop sends the next request
DelayElapses(late) ==
  /\ fetchCall.pc = "sleeping"
  /\ now' = now + fetchCall.delays[Len(fetchCall.delays)] + late
  /\ fetchCall' = [fetchCall EXCEPT !.pc = "inflight", !.requests = @ + 1,
                                    !.sentAt = Append(@, now')]
  /\ UNCHANGED <<fetchRemote, diffVars, walkerVars, twoWayVars, loaderVars, filterVars, clientVars, remoteVars,
                 sessionUndoStore, calls, ledger>>

-----------------------------------------------------------------------------
\* playlists.ts: fetchAllPlaylistTracks step by step, against any remote

\* no playlist response and no pages yet
NoPages == [initial |-> <<>>, served |-> <<>>]

\* the next field of a page: null, missing (undefined), or a string, which is
\* the sequence of its parts: <<>> is the empty string, <<p>> the URL of page p
NullNext == [kind |-> "null", url |-> <<>>]
MissingNext == [kind |-> "missing", url |-> <<>>]
StringNext(url) == [kind |-> "string", url |-> url]

\* next ?? null
OrNull(next) == IF next.kind \in {"null", "missing"} THEN NullNext ELSE next

\* typeof nextUrl === "string" && nextUrl.length > 0
IsCursor(nextUrl) == nextUrl.kind = "string" /\ Len(nextUrl.url) > 0

\* Array.isArray(page.items) ? page.items : []
PageItems(page) == IF page.items.isArray THEN page.items.items ELSE <<>>

NoWalk ==
  [pc |-> "idle", nextUrl |-> NullNext, tracks |-> <<>>, requested |-> <<>>, answered |-> 0]

\* the test of the while loop: the call awaits the page of nextUrl, or returns
LoopTest(w) ==
  IF IsCursor(w.nextUrl)
  THEN [w EXCEPT !.pc = "fetching", !.requested = Append(@, w.nextUrl.url)]
  ELSE [w EXCEPT !.pc = "done"]

\* a walk that stops at a page without items
StopAtEmptyPage(w, page) ==
  IF Len(PageItems(page)) = 0
  THEN [w EXCEPT !.pc = "done", !.answered = @ + 1, !.nextUrl = OrNull(page.next)]
  ELSE LoopTest([w EXCEPT !.tracks = PushTracks(@, PageItems(page), 1, Len(PageItems(page))),
                          !.nextUrl = OrNull(page.next),
                          !.answered = @ + 1])

\* the body of the while loop after the page has arrived, and the next test
AfterPage(w, page) ==
  LoopTest([w EXCEPT !.tracks = PushTracks(@, PageItems(page), 1, Len(PageItems(page))),
                     !.nextUrl = OrNull(page.next),
                     !.answered = @ + 1])

\* the call up to its first await, or to its return: initial is the
\* playlist response that embeds the first page, served the pages of the remote
WalkStart(initial, served) ==
  /\ pageWalk.pc = "idle"
  /\ pageWalk' = LoopTest([NoWalk EXCEPT
                !.tracks = PushTracks(<<>>, initial.tracks.items, 1, Len(initial.tracks.items)),
                !.nextUrl = OrNull(initial.tracks.next)])
  /\ pages' = [initial |-> initial, served |-> served]
  /\ UNCHANGED <<diffVars, fetcherVars, twoWayVars, loaderVars, filterVars, clientVars, remoteVars, serverVars>>

\* the remote answers the page request in flight
PageArrives ==
  /\ pageWalk.pc = "fetching"
  /\ pageWalk.answered < MaxFetches
  /\ pageWalk' = AfterPage(pageWalk, pages.served[pageWalk.nextUrl.url[1]])
  /\ UNCHANGED <<pages, diffVars, fetcherVars, twoWayVars, loaderVars, filterVars, clientVars, remoteVars, serverVars>>

-----------------------------------------------------------------------------
\* The two-way sync of the earlier library (minkyu-spotify/src/lib/spotify)

\* no call of syncPlaylistsWithFetcher yet
NoSyncRun ==
  [pc |-> "idle", sourceId |-> NoPlaylistId, targetId |-> NoPlaylistId, twoWay |-> FALSE,
   missingInTargetUris |-> <<>>, missingInSourceUris |-> <<>>, chunks |-> <<>>,
   addedToTarget |-> 0, addedToSource |-> 0,
   comparison |-> [missingInTarget |-> <<>>, missingInSource |-> <<>>],
   \* history: the add requests issued and returned, whether nobody else has
   \* modified a playlist since the call began
   log |-> <<>>, alone |-> TRUE]

\* the two playlists as read from the remote, and the tracks of each whose
\* URI the other does not hold
comparePlaylistsWithFetcher(sourceItems, targetItems) ==
  LET sourceTracks == fetchAllPlaylistTracks(sourceItems, RemotePlaylistResponse(sourceItems)).tracks
      targetTracks == fetchAllPlaylistTracks(targetItems, RemotePlaylistResponse(targetItems)).tracks
      sourceUris == {sourceTracks[i].uri : i \in DOMAIN sourceTracks}
      targetUris == {targetTracks[i].uri : i \in DOMAIN targetTracks}
  IN  [missingInTarget |-> SelectSeq(sourceTracks, LAMBDA track : track.uri \notin targetUris),
       missingInSource |-> SelectSeq(targetTracks, LAMBDA track : track.uri \notin sourceUris)]

\* history: an add request of a direction, issued or returned
AddEvent(event, direction, playlistId, uris) ==
  [event |-> event, direction |-> direction, playlistId |-> playlistId, uris |-> uris]

\* the call after its last add: it awaits the second comparison
ThenCompare(r) == [r EXCEPT !.pc = "comparing", !.chunks = <<>>]

\* a call that leaves out the second direction
TargetOnly(r) == ThenCompare(r)

\* twoWay ? await addTracksToPlaylist(fetcher, sourceId, missingInSourceUris) : 0,
\* up to the first await
StartSource(r) ==
  LET chunks == SkipEmptyChunks(chunkArray(r.missingInSourceUris, AddChunkSize))
  IN  IF r.twoWay /\ chunks # <<>>
      THEN [r EXCEPT !.pc = "addingSource", !.chunks = chunks,
                     !.log = Append(@, AddEvent("issued", "source", r.sourceId, Head(chunks)))]
      ELSE ThenCompare(r)

\* await addTracksToPlaylist(fetcher, targetId, missingInTargetUris), up to
\* the first await
StartTarget(r) ==
  LET chunks == SkipEmptyChunks(chunkArray(r.missingInTargetUris, AddChunkSize))
  IN  IF chunks # <<>>
      THEN [r EXCEPT !.pc = "addingTarget", !.chunks = chunks,
                     !.log = Append(@, AddEvent("issued", "target", r.targetId, Head(chunks)))]
      ELSE StartSource(r)

\* syncPlaylistsWithFetcher up to its first add request; the reads of the
\* comparison see one version of each playlist
TwoWayStart(sourceId, targetId, twoWay) ==
  /\ syncRun.pc = "idle"
  /\ LET firstComparison == comparePlaylistsWithFetcher(remote[sourceId], remote[targetId])
     IN  syncRun' = StartTarget([NoSyncRun EXCEPT
                      !.sourceId = sourceId, !.targetId = targetId, !.twoWay = twoWay,
                      !.comparison = firstComparison,
                      !.missingInTargetUris = UrisOf(firstComparison.missingInTarget),
                      !.missingInSourceUris = UrisOf(firstComparison.missingInSource)])
  /\ UNCHANGED <<diffVars, fetcherVars, walkerVars, loaderVars, filterVars, clientVars, remoteVars, serverVars>>

\* the playlist that the add request awaited goes to
AddingTo(r) == IF r.pc = "addingTarget" THEN r.targetId ELSE r.sourceId

\* the remote applies the POST awaited and the call runs on: to the next POST
\* of the direction, to the first POST of the second direction or to the
\* second comparison
TwoWayBatchOk ==
  /\ syncRun.pc \in {"addingTarget", "addingSource"}
  /\ LET chunk == Head(syncRun.chunks)
         direction == IF syncRun.pc = "addingTarget" THEN "target" ELSE "source"
         playlistId == AddingTo(syncRun)
         r1 == [syncRun EXCEPT
                  !.chunks = Tail(@),
                  !.addedToTarget = IF direction = "target" THEN @ + Len(chunk) ELSE @,
                  !.addedToSource = IF direction = "source" THEN @ + Len(chunk) ELSE @,
                  !.log = Append(@, AddEvent("returned", direction, playlistId, chunk))]
     IN  /\ remote' = [remote EXCEPT ![playlistId] = RemoteAdd(@, chunk)]
         /\ snap' = [snap EXCEPT ![playlistId] = @ + 1]
         /\ syncRun' =
              IF r1.chunks # <<>>
              THEN [r1 EXCEPT !.log = Append(@, AddEvent("issued", direction, playlistId,
                                                        Head(r1.chunks)))]
              ELSE IF direction = "target" THEN StartSource(r1) ELSE ThenCompare(r1)
  /\ UNCHANGED <<diffVars, fetcherVars, walkerVars, loaderVars, filterVars, clientVars, faults, serverVars>>

\* the remote fails the POST awaited: the error leaves the call
TwoWayBatchFail ==
  /\ syncRun.pc \in {"addingTarget", "addingSource"}
  /\ faults < MaxFaults
  /\ faults' = faults + 1
  /\ syncRun' = [syncRun EXCEPT !.pc = "failed"]
  /\ UNCHANGED <<diffVars, fetcherVars, walkerVars, loaderVars, filterVars, clientVars, remote, snap, serverVars>>

\* the second comparison, returned with the numbers of tracks added
TwoWayCompared ==
  /\ syncRun.pc = "comparing"
  /\ syncRun' = [syncRun EXCEPT
                   !.pc = "done",
                   !.comparison = comparePlaylistsWithFetcher(remote[syncRun.sourceId],
                                                              remote[syncRun.targetId])]
  /\ UNCHANGED <<diffVars, fetcherVars, walkerVars, loaderVars, filterVars, clientVars, remoteVars, serverVars>>

\* another client appends a track to a playlist while the call runs
OtherClientAdds(playlistId, uri) ==
  /\ syncRun.pc \in {"addingTarget", "addingSource", "comparing"}
  /\ syncRun.alone
  /\ remote' = [remote EXCEPT ![playlistId] = RemoteAdd(@, <<uri>>)]
  /\ snap' = [snap EXCEPT ![playlistId] = @ + 1]
  /\ syncRun' = [syncRun EXCEPT !.alone = FALSE]
  /\ UNCHANGED <<diffVars, fetcherVars, walkerVars, loaderVars, filterVars, clientVars, faults, serverVars>>

-----------------------------------------------------------------------------
\* playlist-sync.tsx: the playlist loads of the client

PlaylistSlots == {"A", "B"}

NoTokens == [slot \in PlaylistSlots |-> 0]

\* createEmptyPlaylistLoadState, with the request token of the call whose
\* updater wrote the state (history)
EmptyLoadState ==
  [playlistId |-> NoPlaylistId, tracks |-> <<>>, loadedCount |-> 0, totalCount |-> 0,
   isLoading |-> FALSE, error |-> "", writer |-> 0]

NoLoads == [slot \in PlaylistSlots |-> EmptyLoadState]

\* payload.nextOffset: null, or a number
NoOffset == <<>>
NumberOffset(offset) == <<offset>>

\* GET /api/spotify/playlists/{playlistId}/tracks?offset&limit: the tracks of
\* the page, the summary on the first page only, and the offset of the next
\* page taken from the cursor of the remote
TracksPage(playlistId, offset) ==
  LET items == remote[playlistId]
      last == Min(offset + LoadLimit, Len(items))
      tracksRaw == SubSeq(items, offset + 1, last)
  IN  [summary |-> IF offset = 0 THEN playlistId ELSE NoPlaylistId,
       tracks |-> PushTracks(<<>>, tracksRaw, 1, Len(tracksRaw)),
       offset |-> offset,
       total |-> Len(items),
       nextOffset |-> IF last < Len(items) THEN NumberOffset(last) ELSE NoOffset]

\* a call of loadPlaylistFully at its first fetch; tokenAtEnd is the ref of
\* its slot when the call settled (history)
NewLoad(slot, playlistId, requestToken) ==
  [slot |-> slot, playlistId |-> playlistId, requestToken |-> requestToken,
   pc |-> "fetching", aggregatedTracks |-> <<>>, summary |-> NoPlaylistId, total |-> 0,
   currentOffset |-> 0, error |-> "", tokenAtEnd |-> 0]

\* the updaters handed to setPlaylistLoads: the reset at the start of a call,
\* the progress after a page, the final state and the error state
ResetUpdater(call) ==
  [kind |-> "reset", slot |-> call.slot, requestToken |-> call.requestToken,
   state |-> [EmptyLoadState EXCEPT !.playlistId = call.playlistId, !.isLoading = TRUE,
                                    !.writer = call.requestToken]]

ProgressUpdater(call, isLoading) ==
  [kind |-> "progress", slot |-> call.slot, requestToken |-> call.requestToken,
   state |-> [playlistId |-> call.playlistId, tracks |-> call.aggregatedTracks,
              loadedCount |-> Len(call.aggregatedTracks), totalCount |-> call.total,
              isLoading |-> isLoading, error |-> "", writer |-> call.requestToken]]

ErrorUpdater(call, message) ==
  [kind |-> "error", slot |-> call.slot, requestToken |-> call.requestToken,
   state |-> [EmptyLoadState EXCEPT !.playlistId = call.playlistId, !.error = message,
                                    !.writer = call.requestToken]]

\* a test that never finds a call superseded
NeverStale(tokens, slot, requestToken) == FALSE

\* playlistRequestTokens.current[slot] !== requestToken
IsStale(tokens, slot, requestToken) == tokens[slot] # requestToken

\* one updater run on the state prev, with the ref as it is when it runs
RunUpdater(updater, prev, tokens) ==
  IF updater.kind # "reset" /\ IsStale(tokens, updater.slot, updater.requestToken)
  THEN prev
  ELSE IF updater.kind = "error"
  THEN [prev EXCEPT ![updater.slot] =
          [@ EXCEPT !.playlistId = updater.state.playlistId, !.isLoading = FALSE,
                    !.error = updater.state.error, !.writer = updater.requestToken]]
  ELSE [prev EXCEPT ![updater.slot] = updater.state]

RECURSIVE RunUpdaters(_, _, _)
RunUpdaters(queue, prev, tokens) ==
  IF queue = <<>> THEN prev
  ELSE RunUpdaters(Tail(queue), RunUpdater(Head(queue), prev, tokens), tokens)

\* the catch block of loadPlaylistFully: the call rejects with the error, and
\* hands over an error updater unless it was cancelled
Rejected(call, message, tokens) ==
  [call |-> [call EXCEPT !.pc = "rejected", !.error = message,
                         !.tokenAtEnd = tokens[call.slot]],
   updaters |-> IF message = "playlist-load-cancelled" THEN <<>>
                ELSE <<ErrorUpdater(call, message)>>]

\* the call after the response to its fetch: the page is added and the
\* progress handed over; after the last page the call rejects when it has
\* been superseded or has no summary, and returns the playlist otherwise
AfterTracksPage(call, payload, tokens) ==
  LET c1 == [call EXCEPT
               !.summary = IF payload.summary # NoPlaylistId THEN payload.summary ELSE @,
               !.total = payload.total,
               !.aggregatedTracks = @ \o payload.tracks,
               !.currentOffset = IF payload.nextOffset # NoOffset THEN payload.nextOffset[1]
                                 ELSE payload.offset + Len(payload.tracks)]
      progress == ProgressUpdater(c1, payload.nextOffset # NoOffset)
  IN  IF payload.nextOffset # NoOffset
      THEN [call |-> c1, updaters |-> <<progress>>]
      ELSE IF IsStale(tokens, call.slot, call.requestToken)
      THEN LET r == Rejected(c1, "playlist-load-cancelled", tokens)
           IN  [call |-> r.call, updaters |-> <<progress>> \o r.updaters]
      ELSE IF c1.summary = NoPlaylistId
      THEN LET r == Rejected(c1, "Failed to load playlist details.", tokens)
           IN  [call |-> r.call, updaters |-> <<progress>> \o r.updaters]
      ELSE [call |-> [c1 EXCEPT !.pc = "returned", !.tokenAtEnd = tokens[call.slot]],
            updaters |-> <<progress, ProgressUpdater(c1, FALSE)>>]

\* the two calls of the k-th comparison, and the comparison of a call
LoadOf(k, slot) == IF slot = "A" THEN 2 * k - 1 ELSE 2 * k
CompareOf(i) == (i + 1) \div 2
Sibling(i) == IF i % 2 = 1 THEN i + 1 ELSE i - 1

\* the comparison after call i has settled, given the calls: Promise.all
\* rejects with the first rejection and resolves when both have returned;
\* the catch of handleCompare returns silently on "playlist-load-cancelled"
Settled(compare, i, loads, tokens) ==
  IF compare.pc # "loading" THEN compare
  ELSE IF loads[i].pc = "rejected"
  THEN [compare EXCEPT !.pc = IF loads[i].error = "playlist-load-cancelled"
                              THEN "cancelled" ELSE "error"]
  ELSE IF loads[i].pc = "returned" /\ loads[Sibling(i)].pc = "returned"
  THEN [compare EXCEPT !.pc = "built", !.tokensAtBuild = tokens]
  ELSE compare

\* handleCompare up to the awaits of its two loads; A is loaded with playlist
\* playlistAId and B with playlistBId
StartCompare(playlistAId, playlistBId) ==
  /\ Len(compares) < MaxCompares
  /\ Len(updaterQueue) <= MaxPending
  /\ LET tokens == [slot \in PlaylistSlots |-> playlistRequestTokens[slot] + 1]
         loadA == NewLoad("A", playlistAId, tokens["A"])
         loadB == NewLoad("B", playlistBId, tokens["B"])
     IN  /\ playlistRequestTokens' = tokens
         /\ loadCalls' = loadCalls \o <<loadA, loadB>>
         /\ updaterQueue' = updaterQueue \o <<ResetUpdater(loadA), ResetUpdater(loadB)>>
         /\ compares' = Append(compares, [pc |-> "loading", requestTokens |-> tokens,
                                           tokensAtBuild |-> NoTokens])
  /\ comparison' = NoComparison
  /\ UNCHANGED <<diffVars, fetcherVars, walkerVars, twoWayVars, filterVars, comparedSnap, remoteVars, serverVars, playlistLoads>>

\* call i settles or goes on with result r; the comparison it belongs to is
\* built when this was the last of its loads to return
LoadStep(i, r) ==
  LET loads == [loadCalls EXCEPT ![i] = r.call]
      k == CompareOf(i)
      compare == Settled(compares[k], i, loads, playlistRequestTokens)
  IN  /\ loadCalls' = loads
      /\ updaterQueue' = updaterQueue \o r.updaters
      /\ compares' = [compares EXCEPT ![k] = compare]
      /\ comparison' =
           IF compares[k].pc = "loading" /\ compare.pc = "built"
           THEN buildPlaylistComparison(loads[LoadOf(k, "A")].aggregatedTracks,
                                        loads[LoadOf(k, "B")].aggregatedTracks)
           ELSE comparison

\* the response to the fetch of call i arrives
PageResponse(i) ==
  /\ i \in DOMAIN loadCalls
  /\ loadCalls[i].pc = "fetching"
  /\ Len(updaterQueue) <= MaxPending
  /\ LoadStep(i, AfterTracksPage(loadCalls[i],
                   TracksPage(loadCalls[i].playlistId, loadCalls[i].currentOffset),
                   playlistRequestTokens))
  /\ UNCHANGED <<diffVars, fetcherVars, walkerVars, twoWayVars, filterVars, comparedSnap, remoteVars, serverVars, playlistRequestTokens, playlistLoads>>

\* the fetch of call i is answered with an error status
PageFails(i) ==
  /\ i \in DOMAIN loadCalls
  /\ loadCalls[i].pc = "fetching"
  /\ Len(updaterQueue) <= MaxPending
  /\ faults < MaxFaults
  /\ faults' = faults + 1
  /\ LoadStep(i, Rejected(loadCalls[i], "Failed to load playlist tracks.", playlistRequestTokens))
  /\ UNCHANGED <<diffVars, fetcherVars, walkerVars, twoWayVars, filterVars, comparedSnap, remote, snap, serverVars, playlistRequestTokens, playlistLoads>>

\* React renders: the updaters handed over run in order
Render ==
  /\ updaterQueue # <<>>
  /\ playlistLoads' = RunUpdaters(updaterQueue, playlistLoads, playlistRequestTokens)
  /\ updaterQueue' = <<>>
  /\ UNCHANGED <<diffVars, fetcherVars, walkerVars, twoWayVars, filterVars, clientVars, remoteVars, serverVars, playlistRequestTokens, loadCalls, compares>>

-----------------------------------------------------------------------------
\* The state of the server, the remote and the client before any request

NoVersions == [p \in PlaylistIds |-> 0]

IdleCalls == [s \in Slots |-> IdleCall]

IdleServer ==
  /\ fetchCall = NoFetch
  /\ fetchRemote = NoRemotePlan
  /\ pageWalk = NoWalk
  /\ pages = NoPages
  /\ syncRun = NoSyncRun
  /\ playlistRequestTokens = NoTokens
  /\ playlistLoads = NoLoads
  /\ loadCalls = <<>>
  /\ updaterQueue = <<>>
  /\ compares = <<>>
  /\ sessionUndoStore = {}
  /\ now = 0
  /\ calls = IdleCalls
  /\ ledger = <<>>

-----------------------------------------------------------------------------
\* SpecDiff: the comparison applied to every pair of bounded track lists

TrackLists(n) == {[i \in DOMAIN us |-> [uri |-> us[i]]] : us \in SeqsUpTo(SmallUris, n)}

InitDiff ==
  /\ inA \in TrackLists(MaxDiffLen)
  /\ inB \in TrackLists(MaxDiffLen)
  /\ comparison = NoComparison
  /\ comparedSnap = NoVersions
  /\ inItems = <<>>
  /\ inCandidates = <<>>
  /\ filterResult = NoResult
  /\ remote = [p \in PlaylistIds |-> <<>>]
  /\ snap = NoVersions
  /\ faults = 0
  /\ IdleServer

Compare ==
  /\ comparison = NoComparison
  /\ comparison' = buildPlaylistComparison(inA, inB)
  /\ UNCHANGED <<diffVars, fetcherVars, walkerVars, twoWayVars, loaderVars, filterVars, comparedSnap, remoteVars, serverVars>>

NextDiff == Compare

SpecDiff == InitDiff /\ [][NextDiff]_vars

-----------------------------------------------------------------------------
\* SpecFilter: the candidate filter applied to bounded playlists and candidates

ItemLists(n) ==
  {[i \in DOMAIN xs |-> [track |-> xs[i]]] : xs \in SeqsUpTo(SmallUris \cup {NoTrack}, n)}

InitFilter ==
  /\ inItems \in ItemLists(MaxFilterLen)
  /\ inCandidates \in SeqsUpTo(SmallUris, MaxFilterLen)
  /\ filterResult = NoResult
  /\ inA = <<>>
  /\ inB = <<>>
  /\ comparison = NoComparison
  /\ comparedSnap = NoVersions
  /\ remote = [p \in PlaylistIds |-> <<>>]
  /\ snap = NoVersions
  /\ faults = 0
  /\ IdleServer

Filter ==
  /\ filterResult = NoResult
  /\ filterResult' =
       getFilteredCandidateUris(inItems, RemotePlaylistResponse(inItems), inCandidates)
  /\ UNCHANGED <<diffVars, fetcherVars, walkerVars, twoWayVars, loaderVars, inItems, inCandidates, clientVars, remoteVars, serverVars>>

NextFilter == Filter

SpecFilter == InitFilter /\ [][NextFilter]_vars

-----------------------------------------------------------------------------
\* Spec: the sync and undo routes, the remote and the client, with requests
\* of two sessions interleaved at the awaits of the remote mutations

\* the playlists the remote starts with
InitialPlaylists ==
  {[pA |-> <<[track |-> "X"], [track |-> "X"]>>, pB |-> <<[track |-> "X"]>>],
   [pA |-> <<[track |-> "X"]>>, pB |-> <<>>],
   [pA |-> <<[track |-> "X"], [track |-> "X"]>>,
    pB |-> <<[track |-> NoTrack], [track |-> "Y"]>>]}

Init ==
  /\ inA = <<>>
  /\ inB = <<>>
  /\ inItems = <<>>
  /\ inCandidates = <<>>
  /\ filterResult = NoResult
  /\ comparison = NoComparison
  /\ comparedSnap = NoVersions
  /\ remote \in InitialPlaylists
  /\ snap = NoVersions
  /\ faults = 0
  /\ IdleServer

\* well-formed request bodies of the sync route
SyncBodies == {JsArray(uris) : uris \in SeqsUpTo({"X"}, MaxTrackUris)}

\* the undo tokens a client can present: those issued so far and a foreign one
IssuedTokens == {ledger[i].undoToken : i \in DOMAIN ledger}
UndoTokens == IssuedTokens \cup {ForeignToken}

\* the instance ids of the tracks the client shows as missing
MissingIds == {t.instanceId : t \in {comparison.inAOnly[i] : i \in DOMAIN comparison.inAOnly}}

Next ==
  \/ \E session \in AccessTokens, targetPlaylistId \in PlaylistIds,
        trackUris \in SyncBodies :
       PostSync(session, targetPlaylistId, trackUris)
  \/ ClientCompare
  \/ \E selectedTrackIds \in SUBSET (IF comparison.status = "built" THEN MissingIds ELSE {}) :
       ClientSync(selectedTrackIds)
  \/ \E s \in Slots : AddBatchOk(s)
  \/ \E s \in Slots : AddBatchFail(s)
  \/ \E session \in AccessTokens, targetPlaylistId \in PlaylistIds,
        undoToken \in UndoTokens :
       PostUndo(session, targetPlaylistId, undoToken)

Spec == Init /\ [][Next]_vars

-----------------------------------------------------------------------------
\* SpecBulk: one request of the sync route or of the remove route run on its
\* own against playlists and lists that take several batches of 100

UriNames == <<"X", "Y", "Z">>

\* n URIs that cycle through the first period names
BulkUris(n, period) == [i \in 1..n |-> UriNames[((i - 1) % period) + 1]]

BulkItems(n, period) == [i \in 1..n |-> [track |-> BulkUris(n, period)[i]]]

\* list lengths around the multiples of the batch size
BulkCounts ==
  {1, 2} \cup {k * RemoveBatchSize + d : k \in 1..MaxBulkBatches, d \in {-1, 0, 1}}

\* long enough for MaxBulkBatches * 100 + 1 positions two apart
BulkPlaylistLen == 2 * RemoveBatchSize * MaxBulkBatches + 2

InitBulk ==
  /\ inA = <<>>
  /\ inB = <<>>
  /\ inItems = <<>>
  /\ inCandidates = <<>>
  /\ filterResult = NoResult
  /\ comparison = NoComparison
  /\ comparedSnap = NoVersions
  /\ remote \in {[p \in PlaylistIds |-> IF p = "pA" THEN <<>> ELSE b] :
                   b \in {<<[track |-> "Z"], [track |-> NoTrack], [track |-> "Z"]>>,
                          BulkItems(BulkPlaylistLen, 1), BulkItems(BulkPlaylistLen, 3)}}
  /\ snap = NoVersions
  /\ faults = 0
  /\ IdleServer

\* the entries the client sends to remove count tracks of playlist items,
\* those at positions first, first + stride, ..., in ascending or descending
\* order of position
BulkEntries(items, first, count, stride, descending) ==
  [k \in 1..count |->
     LET position == first + stride * ((IF descending THEN count + 1 - k ELSE k) - 1)
     IN  RawEntry(items[position + 1].track, TRUE, 2 * position)]

\* a request comes in when no other is running: the first one, or the one
\* after a sync of at most MaxTrackUris URIs
BulkIdle ==
  \/ calls = IdleCalls
  \/ /\ now = 1
     /\ \A s \in Slots : calls[s].pc = "done"
     /\ \E s \in Slots :
          calls[s].kind = "sync" /\ Len(calls[s].trackUris) \in 1..MaxTrackUris

BulkSync(count, period) ==
  /\ BulkIdle
  /\ PostSync("at1", "pB", JsArray(BulkUris(count, period)))

BulkRemove(first, count, stride, descending) ==
  /\ BulkIdle
  /\ first + stride * (count - 1) < Len(remote["pB"])
  /\ \A k \in 0..(count - 1) : remote["pB"][first + stride * k + 1].track # NoTrack
  /\ PostRemove("at1", "pB",
       JsArray(BulkEntries(remote["pB"], first, count, stride, descending)))

\* a caller hands the first count items of playlist "pB" to
\* removeTracksFromPlaylist, with a snapshot id in the options or without
BulkRemoveTracks(count, snapshotId) ==
  /\ BulkIdle
  /\ CanStart
  /\ count <= Len(remote["pB"])
  /\ \A k \in 1..count : remote["pB"][k].track # NoTrack
  /\ LET entries == [k \in 1..count |-> [uri |-> remote["pB"][k].track, position |-> k - 1]]
         c0 == [NewCall("removeTracks", "at1", "pB") EXCEPT
                  !.entries = entries, !.before = remote["pB"], !.after = remote["pB"],
                  !.snapAtRead = snap["pB"]]
     IN  calls' = [calls EXCEPT ![FreeSlot] = StartRemove(c0, JsArray(entries), snapshotId)]
  /\ now' = now + 1
  /\ UNCHANGED <<diffVars, fetcherVars, walkerVars, twoWayVars, loaderVars, filterVars, clientVars, remoteVars, sessionUndoStore, ledger>>

\* raw entries of a remove request as a client can send them
RawEntries ==
  {RawEntry(" Z", TRUE, 1), RawEntry("Z", TRUE, 4), RawEntry("Z", FALSE, 0),
   RawEntry(" ", TRUE, 0), RawEntry("Z", TRUE, -2)}

RemoveBodies == {JsObject} \cup {JsArray(entries) : entries \in SeqsUpTo(RawEntries, MaxRawEntries)}

NextBulk ==
  \/ \E count \in BulkCounts, period \in {1, 2} : BulkSync(count, period)
  \/ \E first \in {0, 1}, count \in BulkCounts, stride \in {1, 2}, descending \in BOOLEAN :
       BulkRemove(first, count, stride, descending)
  \/ \E session \in AccessTokens, playlistId \in PlaylistIds \cup {NoPlaylistId},
        entries \in RemoveBodies :
       /\ BulkIdle
       /\ PostRemove(session, playlistId, entries)
  \/ \E count \in {0, 1, 2 * RemoveBatchSize + 1},
        snapshotId \in {NoSnapshot, SnapshotId("pB", snap["pB"])} :
       BulkRemoveTracks(count, snapshotId)
  \/ \E s \in Slots : AddBatchOk(s)
  \/ \E s \in Slots : AddBatchFail(s)
  \/ \E s \in Slots : RemoveBatchOk(s)
  \/ \E s \in Slots : RemoveBatchFail(s)

SpecBulk == InitBulk /\ [][NextBulk]_vars

-----------------------------------------------------------------------------
\* SpecFetch: one call of the fetcher

\* most 429 responses a remote gives before its final response
MaxRateLimited == 6

AccessContext(accessToken) == [tokenType |-> "Bearer", accessToken |-> accessToken]

\* the calls: whose token, and which path
FetchCalls ==
  {<<AccessContext("at1"), AbsolutePath>>, <<AccessContext("at1"), SlashPath>>,
   <<AccessContext("at2"), BarePath>>}

JsonBody == Body("{\"error\":{}}", TRUE)
RawBody == Body("upstream", FALSE)

\* the Retry-After headers of the 429 responses: absent, "0", "0.0015", "2",
\* a date 3000 ms after the start of the call, a text that is neither
RetryAfterHeaders ==
  {NoRetryAfter, RetryAfterNumber(0), RetryAfterNumber(15), RetryAfterNumber(20000),
   RetryAfterDate(3000), RetryAfterText}

\* how late a timer fires, in ms
TimerLateness == {0, 7}

FinalResponses ==
  {Response(200, NoRetryAfter, TRUE, Body("{\"items\":[]}", TRUE)),
   Response(200, NoRetryAfter, FALSE, Body("plain", FALSE)),
   Response(204, NoRetryAfter, FALSE, Body("", FALSE)),
   Response(404, NoRetryAfter, TRUE, JsonBody),
   Response(500, NoRetryAfter, FALSE, RawBody)}

RemotePlans ==
  {[rateLimited |-> k, retryAfter |-> h, body |-> b, final |-> r, answered |-> 0] :
     k \in 0..MaxRateLimited, h \in RetryAfterHeaders, b \in {JsonBody, RawBody},
     r \in FinalResponses}
    \cup {[rateLimited |-> Forever, retryAfter |-> h, body |-> b, final |-> r,
            answered |-> 0] :
            h \in RetryAfterHeaders, b \in {JsonBody, RawBody},
            r \in {Response(204, NoRetryAfter, FALSE, Body("", FALSE))}}

InitFetch ==
  /\ inA = <<>>
  /\ inB = <<>>
  /\ comparison = NoComparison
  /\ comparedSnap = NoVersions
  /\ inItems = <<>>
  /\ inCandidates = <<>>
  /\ filterResult = NoResult
  /\ remote = [p \in PlaylistIds |-> <<>>]
  /\ snap = NoVersions
  /\ faults = 0
  /\ IdleServer

NextFetch ==
  \/ \E call \in FetchCalls, plan \in RemotePlans : FetchStart(call[1], call[2], plan)
  \/ RemoteRateLimits
  \/ RemoteAnswers
  \/ \E late \in TimerLateness : DelayElapses(late)

\* the remote answers every request and every timer fires
SpecFetch ==
  /\ InitFetch
  /\ [][NextFetch]_vars
  /\ WF_vars(RemoteRateLimits)
  /\ WF_vars(RemoteAnswers)
  /\ WF_vars(\E late \in TimerLateness : DelayElapses(late))

-----------------------------------------------------------------------------
\* SpecWalk: one call of fetchAllPlaylistTracks

\* the URIs of the tracks of page p, page 0 being the embedded one
PageUris == <<<<"p0a", "p0b">>, <<"p1a", "p1b">>, <<"p2a", "p2b">>, <<"p3a", "p3b">>>>

\* what page p can hold as items: nothing or one track on the embedded page
\* and on the pages of even number; an item without track body between two
\* tracks, or no array at all, on the pages of odd number
ItemChoices(p) ==
  IF p % 2 = 0
  THEN {JsArray(<<>>), JsArray(<<[track |-> PageUris[p + 1][1]]>>)}
  ELSE {JsArray(<<[track |-> PageUris[p + 1][1]], [track |-> NoTrack],
                  [track |-> PageUris[p + 1][2]]>>),
        JsObject}

NextChoices == {NullNext, MissingNext, StringNext(<<>>)} \cup {StringNext(<<p>>) : p \in 1..MaxPages}

InitialResponses ==
  {[tracks |-> [items |-> i.items, next |-> n, total |-> Len(i.items)]] :
     i \in ItemChoices(0) \ {JsObject}, n \in NextChoices}

ServedPages ==
  {f \in [1..MaxPages -> [items : UNION {ItemChoices(p) : p \in 1..MaxPages}, next : NextChoices]] :
     \A p \in 1..MaxPages : f[p].items \in ItemChoices(p)}

InitWalk == InitFetch

NextWalk ==
  \/ \E initial \in InitialResponses, served \in ServedPages : WalkStart(initial, served)
  \/ PageArrives

\* the remote answers every page request
SpecWalk == InitWalk /\ [][NextWalk]_vars /\ WF_vars(PageArrives)

-----------------------------------------------------------------------------
\* SpecSlot: syncs into playlist "pB", removals of one of its tracks,
\* comparisons and undo requests of two sessions

\* handleRemoveSelected of a client: the track at position k of playlist "pB"
RemoveSelected(session, k) ==
  /\ k \in DOMAIN remote["pB"]
  /\ remote["pB"][k].track # NoTrack
  /\ PostRemove(session, "pB", JsArray(<<RawEntry(remote["pB"][k].track, TRUE, 2 * (k - 1))>>))

InitSlot == Init

NextSlot ==
  \/ \E session \in AccessTokens, trackUris \in SyncBodies : PostSync(session, "pB", trackUris)
  \/ \E s \in Slots : AddBatchOk(s)
  \/ ClientCompare
  \/ \E session \in AccessTokens, k \in 1..2 : RemoveSelected(session, k)
  \/ \E s \in Slots : RemoveBatchOk(s)
  \/ \E session \in AccessTokens, undoToken \in IssuedTokens : PostUndo(session, "pB", undoToken)

SpecSlot == InitSlot /\ [][NextSlot]_vars

-----------------------------------------------------------------------------
\* SpecTwoWay: one call of syncPlaylistsWithFetcher

\* list lengths: none, one, a few, and one more than MaxTwoWayBatches - 1
\* full batches
TwoWayCounts == {0, 1, 3, (MaxTwoWayBatches - 1) * AddChunkSize + 1}

TwoWayPlaylists ==
  {BulkItems(n, period) : n \in TwoWayCounts, period \in {1, 2}}
    \cup {<<[track |-> "Z"], [track |-> NoTrack], [track |-> "X"]>>}

InitTwoWay ==
  /\ inA = <<>>
  /\ inB = <<>>
  /\ inItems = <<>>
  /\ inCandidates = <<>>
  /\ filterResult = NoResult
  /\ comparison = NoComparison
  /\ comparedSnap = NoVersions
  /\ remote \in {[p \in PlaylistIds |-> IF p = "pA" THEN a ELSE b] :
                   a \in TwoWayPlaylists,
                   b \in {<<>>, <<[track |-> "Y"]>>, <<[track |-> "Z"], [track |-> "Z"]>>,
                          BulkItems((MaxTwoWayBatches - 1) * AddChunkSize + 1, 3)}}
  /\ snap = NoVersions
  /\ faults = 0
  /\ IdleServer

NextTwoWay ==
  \/ \E sourceId \in PlaylistIds, targetId \in PlaylistIds, twoWay \in BOOLEAN :
       TwoWayStart(sourceId, targetId, twoWay)
  \/ TwoWayBatchOk
  \/ TwoWayBatchFail
  \/ TwoWayCompared
  \/ \E playlistId \in PlaylistIds : OtherClientAdds(playlistId, "W")

SpecTwoWay == InitTwoWay /\ [][NextTwoWay]_vars

-----------------------------------------------------------------------------
\* SpecLoad: comparisons started one after the other by the client

InitLoad ==
  /\ inA = <<>>
  /\ inB = <<>>
  /\ inItems = <<>>
  /\ inCandidates = <<>>
  /\ filterResult = NoResult
  /\ comparison = NoComparison
  /\ comparedSnap = NoVersions
  /\ remote = [pA |-> <<[track |-> "X"], [track |-> NoTrack], [track |-> "Y"]>>,
               pB |-> <<[track |-> "Y"]>>]
  /\ snap = NoVersions
  /\ faults = 0
  /\ IdleServer

NextLoad ==
  \/ \E playlistAId \in PlaylistIds, playlistBId \in PlaylistIds :
       playlistAId # playlistBId /\ StartCompare(playlistAId, playlistBId)
  \/ \E i \in 1..(2 * MaxCompares) : PageResponse(i)
  \/ \E i \in 1..(2 * MaxCompares) : PageFails(i)
  \/ Render

SpecLoad == InitLoad /\ [][NextLoad]_vars

-----------------------------------------------------------------------------
\* Properties of the comparison (SpecDiff)

\* occurrences of URI u in a tagged list that carry presence p
TaggedCount(tagged, u, p) ==
  Cardinality({i \in DOMAIN tagged : tagged[i].uri = u /\ tagged[i].presence = p})

\* C1: buildPlaylistComparison is multiset-correct. For every URI u the number
\* of A-occurrences tagged "common" and the number of B-occurrences tagged
\* "common" both equal min(count_A(u), count_B(u)); the other count_A(u) - min
\* occurrences of A are tagged "uniqueToA" and the other count_B(u) - min
\* occurrences of B are tagged "uniqueToB"; the derived lists hold one entry
\* per occurrence (duplicates are not collapsed by URI).
C1_MultisetCorrect ==
  comparison.status = "built" =>
    /\ Len(comparison.playlistA) = Len(inA)
    /\ Len(comparison.playlistB) = Len(inB)
    /\ \A u \in Uris :
         LET countA == CountOf(u, UrisOf(inA))
             countB == CountOf(u, UrisOf(inB))
             m == Min(countA, countB)
         IN  /\ TaggedCount(comparison.playlistA, u, "common") = m
             /\ TaggedCount(comparison.playlistB, u, "common") = m
             /\ TaggedCount(comparison.playlistA, u, "uniqueToA") = countA - m
             /\ TaggedCount(comparison.playlistB, u, "uniqueToB") = countB - m
             /\ CountOf(u, UrisOf(comparison.inBoth)) = m
             /\ CountOf(u, UrisOf(comparison.inAOnly)) = countA - m
             /\ CountOf(u, UrisOf(comparison.inBOnly)) = countB - m

\* the spec's example: A = [X, X, Y] compared with B = [X]
C1_Witness ==
  /\ comparison.status = "built"
  /\ UrisOf(inA) = <<"X", "X", "Y">>
  /\ UrisOf(inB) = <<"X">>
  /\ UrisOf(comparison.inAOnly) = <<"X", "Y">>
  /\ UrisOf(comparison.inBoth) = <<"X">>

\* the positions of the derived lists that hold the occurrence instanceId
DerivedPositions(instanceId) ==
  {<<"inAOnly", i>> : i \in {j \in DOMAIN comparison.inAOnly :
                               comparison.inAOnly[j].instanceId = instanceId}}
    \cup {<<"inBOnly", i>> : i \in {j \in DOMAIN comparison.inBOnly :
                                    comparison.inBOnly[j].instanceId = instanceId}}
    \cup {<<"inBoth", i>> : i \in {j \in DOMAIN comparison.inBoth :
                                   comparison.inBoth[j].instanceId = instanceId}}

\* the occurrences of side B tagged "common"
CommonInB == {i \in DOMAIN comparison.playlistB : comparison.playlistB[i].presence = "common"}

\* the sizes of the derived lists add up on each side, and every occurrence
\* carries its own identifier and one tag of its side
SizesAndTags ==
  /\ Len(comparison.inAOnly) + Len(comparison.inBoth) = Len(inA)
  /\ Len(comparison.inBOnly) + Cardinality(CommonInB) = Len(inB)
  /\ Cardinality(CommonInB) = Len(comparison.inBoth)
  /\ DOMAIN comparison.playlistA = DOMAIN inA
  /\ DOMAIN comparison.playlistB = DOMAIN inB
  /\ \A i \in DOMAIN comparison.playlistA :
       /\ comparison.playlistA[i].instanceId = InstanceId("A", i - 1)
       /\ comparison.playlistA[i].uri = inA[i].uri
       /\ comparison.playlistA[i].presence \in {"common", "uniqueToA"}
  /\ \A i \in DOMAIN comparison.playlistB :
       /\ comparison.playlistB[i].instanceId = InstanceId("B", i - 1)
       /\ comparison.playlistB[i].uri = inB[i].uri
       /\ comparison.playlistB[i].presence \in {"common", "uniqueToB"}

\* every occurrence of side A is at exactly one position of the derived
\* lists: of inBoth when tagged "common", of inAOnly otherwise
SideAPlaced ==
  \A i \in DOMAIN comparison.playlistA :
    LET t == comparison.playlistA[i]
    IN  \E j \in 1..Len(inA) :
          DerivedPositions(t.instanceId) =
            {<<IF t.presence = "common" THEN "inBoth" ELSE "inAOnly", j>>}

\* C19 as stated: the comparison partitions each side by occurrence.
\* |inAOnly| + |inBoth| = |A|, |inBOnly| + #(B-occurrences tagged "common")
\* = |B| with that number equal to |inBoth|, every occurrence of either side
\* carries exactly one presence tag and appears in exactly one position of
\* the derived lists.
C19_EveryOccurrencePlaced ==
  comparison.status = "built" =>
    /\ SizesAndTags
    /\ SideAPlaced
    /\ \A i \in DOMAIN comparison.playlistB :
         Cardinality(DerivedPositions(comparison.playlistB[i].instanceId)) = 1

\* C19 amended: the same sizes and tags; every occurrence of side A and
\* every occurrence of side B tagged "uniqueToB" appears in exactly one
\* position of the derived lists; an occurrence of side B tagged "common"
\* appears in none, inBoth holding the occurrences of side A, of which it has
\* as many for every URI as side B has occurrences tagged "common".
C19_PartitionByOccurrence ==
  comparison.status = "built" =>
    /\ SizesAndTags
    /\ SideAPlaced
    /\ \A i \in DOMAIN comparison.playlistB :
         LET t == comparison.playlistB[i]
         IN  IF t.presence = "uniqueToB"
             THEN \E j \in 1..Len(inB) : DerivedPositions(t.instanceId) = {<<"inBOnly", j>>}
             ELSE DerivedPositions(t.instanceId) = {}
    /\ \A u \in Uris :
         CountOf(u, UrisOf(comparison.inBoth)) = TaggedCount(comparison.playlistB, u, "common")

\* A = [X, Y] compared with B = [X, X]: one occurrence in each derived list,
\* and the first X of B tagged "common"
C19_Witness ==
  /\ comparison.status = "built"
  /\ UrisOf(inA) = <<"X", "Y">>
  /\ UrisOf(inB) = <<"X", "X">>
  /\ CommonInB = {1}
  /\ comparison.inBoth[1].instanceId = InstanceId("A", 0)
  /\ comparison.inBOnly[1].instanceId = InstanceId("B", 1)
  /\ Len(comparison.inAOnly) = 1

\* C20: comparing a playlist with itself finds no difference. For every
\* track list A, duplicates and the empty list included,
\* buildPlaylistComparison(A, A) has empty inAOnly and inBOnly, an inBoth of
\* length |A| that holds the occurrences of A in order, and every occurrence
\* of both sides tagged "common".
C20_SelfComparison ==
  (comparison.status = "built" /\ inA = inB) =>
    /\ comparison.inAOnly = <<>>
    /\ comparison.inBOnly = <<>>
    /\ Len(comparison.inBoth) = Len(inA)
    /\ UrisOf(comparison.inBoth) = UrisOf(inA)
    /\ Len(comparison.playlistA) = Len(inA)
    /\ Len(comparison.playlistB) = Len(inA)
    /\ \A i \in DOMAIN comparison.playlistA : comparison.playlistA[i].presence = "common"
    /\ \A i \in DOMAIN comparison.playlistB : comparison.playlistB[i].presence = "common"

\* a list with a duplicate compared with itself
C20_Witness ==
  /\ comparison.status = "built"
  /\ inA = inB
  /\ UrisOf(inA) = <<"X", "Y", "X">>
  /\ Len(comparison.inBoth) = 3

\* the number of tracks with the URI of tracks[i] among the first i
OccurrenceRank(tracks, i) ==
  Cardinality({j \in 1..i : tracks[j].uri = tracks[i].uri})

\* the identifiers of the tracks of tagged that carry presence p, in order
TaggedIds(tagged, p) ==
  LET picked == SelectSeq(tagged, LAMBDA t : t.presence = p)
  IN  [k \in DOMAIN picked |-> picked[k].instanceId]

\* the identifiers of a derived list, in order
IdsOf(tracks) == [k \in DOMAIN tracks |-> tracks[k].instanceId]

\* C22: the tie-break of the comparison is positional and order-preserving.
\* For every URI u with m = min(count_A(u), count_B(u)) exactly the first m
\* occurrences of u in A and the first m occurrences of u in B are tagged
\* "common" and the later ones unique; inAOnly, inBoth and inBOnly list their
\* occurrences in the order of their side; the track at index i of side A/B
\* carries the identifier "A-i"/"B-i".
C22_PositionalTieBreak ==
  comparison.status = "built" =>
    /\ \A i \in DOMAIN inA :
         LET m == Min(CountOf(inA[i].uri, UrisOf(inA)), CountOf(inA[i].uri, UrisOf(inB)))
         IN  /\ comparison.playlistA[i].presence =
                  IF OccurrenceRank(inA, i) <= m THEN "common" ELSE "uniqueToA"
             /\ comparison.playlistA[i].instanceId = <<"A", i - 1>>
    /\ \A i \in DOMAIN inB :
         LET m == Min(CountOf(inB[i].uri, UrisOf(inA)), CountOf(inB[i].uri, UrisOf(inB)))
         IN  /\ comparison.playlistB[i].presence =
                  IF OccurrenceRank(inB, i) <= m THEN "common" ELSE "uniqueToB"
             /\ comparison.playlistB[i].instanceId = <<"B", i - 1>>
    /\ IdsOf(comparison.inAOnly) = TaggedIds(comparison.playlistA, "uniqueToA")
    /\ IdsOf(comparison.inBoth) = TaggedIds(comparison.playlistA, "common")
    /\ IdsOf(comparison.inBOnly) = TaggedIds(comparison.playlistB, "uniqueToB")

\* A = [X, Y] compared with B = [X, Y, X]: the first X of B is common, the
\* second is the one unique to B
C22_Witness ==
  /\ comparison.status = "built"
  /\ UrisOf(inA) = <<"X", "Y">>
  /\ UrisOf(inB) = <<"X", "Y", "X">>
  /\ comparison.playlistB[1].presence = "common"
  /\ comparison.playlistB[3].presence = "uniqueToB"
  /\ IdsOf(comparison.inBOnly) = <<<<"B", 2>>>>
  /\ IdsOf(comparison.inBoth) = <<<<"A", 0>>, <<"A", 1>>>>

-----------------------------------------------------------------------------
\* Properties of the batched mutation (SpecBulk)

\* the positions a DELETE request names, as <<group, index>> pairs
NamedPositions(request) ==
  UNION {{<<g, j>> : j \in DOMAIN request.tracks[g].positions} : g \in DOMAIN request.tracks}

\* the number of entries contained in the requests before the k-th of sent
EntriesBefore(sent, k) ==
  Cardinality(UNION {{<<r, x>> : x \in NamedPositions(sent[r])} : r \in 1..(k - 1)})

\* C2: removeTracksFromPlaylist sends shift-corrected positions. The entries
\* are sorted by position ascending and cut into consecutive batches of at
\* most 100; the position sent for every entry of batch k is its original
\* position minus the number of entries contained in batches 1..k-1, under
\* the entry's URI.
C2_ShiftCorrectedPositions ==
  \A s \in Slots : \A k \in DOMAIN calls[s].sent :
    LET c == calls[s]
        request == c.sent[k]
        earlier == EntriesBefore(c.sent, k)
        size == Cardinality(NamedPositions(request))
    IN  request.method = "DELETE" =>
          /\ \A i \in 1..(Len(c.sortedEntries) - 1) :
               c.sortedEntries[i].position <= c.sortedEntries[i + 1].position
          /\ size = Min(RemoveBatchSize, Len(c.sortedEntries) - earlier)
          /\ \A i \in (earlier + 1)..(earlier + size) :
               \E g \in DOMAIN request.tracks :
                 /\ request.tracks[g].uri = c.sortedEntries[i].uri
                 /\ \E j \in DOMAIN request.tracks[g].positions :
                      request.tracks[g].positions[j] = c.sortedEntries[i].position - earlier

\* 201 entries two positions apart, from position 1: the third request holds
\* the entry of position 401, sent as 401 - 200
C2_Witness ==
  \E s \in Slots :
    /\ calls[s].kind = "remove"
    /\ calls[s].status = 200
    /\ Len(calls[s].sent) = 3
    /\ Len(calls[s].sortedEntries) = 2 * RemoveBatchSize + 1
    /\ calls[s].sortedEntries[2 * RemoveBatchSize + 1].position = 4 * RemoveBatchSize + 1
    /\ \E g \in DOMAIN calls[s].sent[3].tracks :
         calls[s].sent[3].tracks[g].positions = <<2 * RemoveBatchSize + 1>>

\* items without those at the 0-based positions in removed
KeptItems(items, removed) ==
  LET kept == SelectSeq([i \in DOMAIN items |-> i], LAMBDA i : (i - 1) \notin removed)
  IN  [k \in DOMAIN kept |-> items[kept[k]]]

\* the entries have pairwise distinct positions and each names the URI the
\* playlist holds at its position
ValidEntries(entries, items) ==
  /\ Cardinality({entries[i].position : i \in DOMAIN entries}) = Len(entries)
  /\ \A i \in DOMAIN entries :
       /\ entries[i].position < Len(items)
       /\ items[entries[i].position + 1].track = entries[i].uri

\* C3: bulk removal removes exactly the requested occurrences. When a remove
\* request names pairwise distinct positions of the playlist P it read, each
\* with the URI P holds there, nobody else changes the playlist and the
\* remote answers every DELETE, then every DELETE is accepted and the
\* playlist is left equal to P without the items at the requested positions,
\* the others in their original order, however many batches it takes.
C3_RemovesExactlyRequested ==
  \A s \in Slots :
    LET c == calls[s]
    IN  (/\ c.kind = "remove"
         /\ c.pc = "done"
         /\ c.status \in {200, 400}
         /\ Len(c.sent) > 0
         /\ c.alone
         /\ ValidEntries(c.entries, c.before))
        => /\ c.status = 200
           /\ c.after = KeptItems(c.before, {c.entries[i].position : i \in DOMAIN c.entries})
           /\ Len(c.removedUris) = Len(c.entries)

\* 201 entries two positions apart, sent in descending order of position, are
\* removed in three batches
C3_Witness ==
  \E s \in Slots :
    /\ calls[s].kind = "remove"
    /\ calls[s].status = 200
    /\ Len(calls[s].sent) = 3
    /\ Len(calls[s].entries) = 2 * RemoveBatchSize + 1
    /\ calls[s].entries[1].position = calls[s].entries[2].position + 2
    /\ ValidEntries(calls[s].entries, calls[s].before)
    /\ Len(calls[s].after) = Len(calls[s].before) - Len(calls[s].entries)
    /\ remote[calls[s].playlistId] = calls[s].after

\* the URIs of the POST requests of sent, concatenated in issue order
RECURSIVE PostedUris(_)
PostedUris(sent) ==
  IF sent = <<>> THEN <<>>
  ELSE (IF Head(sent).method = "POST" THEN Head(sent).uris ELSE <<>>) \o PostedUris(Tail(sent))

\* C4: no mutation request exceeds the remote batch ceiling. Every POST of
\* addTracksToPlaylist carries at least 1 and at most 100 URIs and every
\* DELETE of removeTracksFromPlaylist names at most 100 positions over its
\* URI groups; the POST batches in issue order make up the input list of
\* addTracksToPlaylist, nothing dropped, duplicated or reordered, and a
\* finished add of n URIs has taken ceil(n / 100) requests.
C4_BatchCeiling ==
  \A s \in Slots :
    LET c == calls[s]
        posted == PostedUris(c.sent)
    IN  /\ \A k \in DOMAIN c.sent :
             /\ c.sent[k].method = "POST" =>
                  Len(c.sent[k].uris) >= 1 /\ Len(c.sent[k].uris) <= AddChunkSize
             /\ c.sent[k].method = "DELETE" =>
                  Cardinality(NamedPositions(c.sent[k])) <= RemoveBatchSize
        /\ c.kind = "sync" =>
             /\ Len(posted) <= Len(c.filteredUris)
             /\ posted = SubSeq(c.filteredUris, 1, Len(posted))
             /\ (c.pc = "done" /\ c.status = 200) =>
                  /\ posted = c.filteredUris
                  /\ c.addedUris = c.filteredUris
                  /\ Len(c.sent) = (Len(c.filteredUris) + AddChunkSize - 1) \div AddChunkSize

\* 201 URIs are added in requests of 100, 100 and 1 URIs
C4_Witness ==
  \E s \in Slots :
    /\ calls[s].kind = "sync"
    /\ calls[s].status = 200
    /\ Len(calls[s].filteredUris) = 2 * AddChunkSize + 1
    /\ Len(calls[s].sent) = 3
    /\ Len(calls[s].sent[1].uris) = AddChunkSize
    /\ Len(calls[s].sent[3].uris) = 1

\* the mutation requests of the call that were issued and not yet answered
InFlight(c) == c.issued - Len(c.sent)

\* the call is that of the request that came in last: no other call changes
\* the playlist after it
Latest(c) == c.seq = now

\* the mutation requests of the call that the remote applied
Applied(c) == Len(c.sent) - (IF c.status \in {400, 503} THEN 1 ELSE 0)

\* C14: the batches of one add or remove call are strictly sequential. At
\* most one mutation request of a call is in flight, and one is in flight
\* exactly while the call awaits the remote, so request N is issued only when
\* the response to request N-1 has been observed. The remote receives the
\* batches in input order: the k-th POST carries the k-th run of 100 of the
\* URIs to add, and after each response the playlist holds what it held
\* before the call followed by the batches applied so far (add), or what it
\* held without the items at the positions of the batches applied so far,
\* taken in ascending order of position (remove of valid entries), as long
\* as no later call changes the playlist.
C14_BatchesSequential ==
  \A s \in Slots :
    LET c == calls[s]
        applied == Applied(c)
    IN  /\ InFlight(c) \in {0, 1}
        /\ InFlight(c) = 1 <=> c.pc \in {"adding", "removing"}
        /\ c.kind = "sync" =>
             /\ \A k \in DOMAIN c.sent :
                  c.sent[k].uris =
                    SubSeq(c.filteredUris, AddChunkSize * (k - 1) + 1,
                           Min(AddChunkSize * k, Len(c.filteredUris)))
             /\ (c.issued > 0 /\ Latest(c)) =>
                  remote[c.playlistId] =
                    RemoteAdd(c.before,
                      SubSeq(c.filteredUris, 1, Min(AddChunkSize * applied, Len(c.filteredUris))))
        /\ (c.kind = "remove" /\ c.issued > 0 /\ ValidEntries(c.entries, c.before)) =>
             /\ c.processed = Min(RemoveBatchSize * applied, Len(c.sortedEntries))
             /\ Latest(c) => remote[c.playlistId] =
                  KeptItems(c.before, {c.sortedEntries[i].position : i \in 1..c.processed})

\* the third POST of a sync is in flight after two were answered
C14_Witness ==
  \E s \in Slots :
    /\ calls[s].kind = "sync"
    /\ calls[s].pc = "adding"
    /\ calls[s].issued = 3
    /\ Len(calls[s].sent) = 2
    /\ Len(remote[calls[s].playlistId]) = Len(calls[s].before) + 2 * AddChunkSize

\* the mutation requests of the call that changed the playlist
Committed(c) == snap[c.playlistId] - c.snapAtRead

\* a mutation request of the call, the last one to come in, was answered
\* with an error
BatchError(c) == c.issued > 0 /\ Latest(c) /\ Len(c.sent) > Committed(c)

\* C15: multi-batch mutations are fail-fast without compensation. When the
\* remote answers batch k of an add or remove call with an error, the call
\* ends with the status and status text of that error, batch k is the last
\* request it issued, the playlist holds the effect of batches 1..k-1 and
\* nothing else, and a sync that fails this way returns no undo token and
\* leaves the undo store as it was when the sync came in.
C15_FailFastNoCompensation ==
  \A s \in Slots :
    LET c == calls[s]
        committed == Committed(c)
    IN  BatchError(c) =>
          /\ c.pc = "done"
          /\ \/ c.status = 503 /\ c.error = "Service Unavailable"
             \/ c.status = 400 /\ c.error = "Bad Request"
          /\ c.issued = Len(c.sent)
          /\ Len(c.sent) = committed + 1
          /\ c.kind = "sync" =>
               /\ remote[c.playlistId] =
                    RemoteAdd(c.before, SubSeq(c.filteredUris, 1, AddChunkSize * committed))
               /\ c.resultToken = NoUndoToken
               /\ sessionUndoStore = c.storeAtRead
               /\ Len(ledger) = c.ledgerAtRead
          /\ (c.kind = "remove" /\ ValidEntries(c.entries, c.before)) =>
               remote[c.playlistId] =
                 KeptItems(c.before,
                   {c.sortedEntries[i].position : i \in 1..(RemoveBatchSize * committed)})

\* the second batch of a sync failed after the first was applied, in a
\* session whose undo slot held the entry of an earlier sync
C15_Witness ==
  \E s \in Slots :
    /\ calls[s].kind = "sync"
    /\ BatchError(calls[s])
    /\ Len(calls[s].sent) = 2
    /\ Len(remote[calls[s].playlistId]) = Len(calls[s].before) + AddChunkSize
    /\ MapHas(calls[s].storeAtRead, getSessionKey([accessToken |-> calls[s].session]))
    /\ sessionUndoStore = calls[s].storeAtRead

\* C16: removeTracksFromPlaylist chains the consistency token. The first
\* DELETE of a call carries the snapshot id of the options when one is given
\* and none otherwise; every later DELETE carries the snapshot id that the
\* response to the DELETE before it returned; the snapshotId of the result is
\* the one the last DELETE returned, or that of the options when there was
\* nothing to remove.
C16_SnapshotChain ==
  \A s \in Slots :
    LET c == calls[s]
    IN  /\ \A k \in DOMAIN c.sent :
             c.sent[k].method = "DELETE" =>
               c.sent[k].snapshotId =
                 IF k = 1 THEN c.options
                 ELSE SnapshotId(c.playlistId, c.snapAtRead + (k - 1))
        /\ (c.kind \in {"remove", "removeTracks"} /\ c.pc = "done" /\ c.status = 200) =>
             c.currentSnapshotId =
               IF c.issued = 0 THEN c.options
               ELSE SnapshotId(c.playlistId, c.snapAtRead + Len(c.sent))
        /\ (Latest(c) /\ c.pc = "done" /\ c.status = 200 /\ c.issued > 0
              /\ c.sent[1].method = "DELETE") =>
             c.currentSnapshotId = SnapshotId(c.playlistId, snap[c.playlistId])

\* a call that was given a snapshot id has sent three DELETEs, the first
\* with that snapshot id and the third with the one the second returned
C16_Witness ==
  \E s \in Slots :
    /\ calls[s].kind = "removeTracks"
    /\ calls[s].status = 200
    /\ calls[s].options # NoSnapshot
    /\ Len(calls[s].sent) = 3
    /\ calls[s].sent[1].snapshotId = calls[s].options
    /\ calls[s].sent[3].snapshotId # calls[s].sent[2].snapshotId
    /\ calls[s].currentSnapshotId = SnapshotId("pB", snap["pB"])

-----------------------------------------------------------------------------
\* Properties of the undo slot (Spec)

\* the record of the sync that issued undoToken
Issued(undoToken) == ledger[CHOOSE i \in DOMAIN ledger : ledger[i].undoToken = undoToken]

\* a finished undo request that passed the checks of its body
UndoCalls == {s \in Slots : calls[s].kind = "undo" /\ calls[s].pc = "done" /\ calls[s].status # 400}

\* the response "no undoable sync found", with nothing sent to the remote and
\* the playlist as it was
NothingUndone(c) ==
  /\ c.status = 404
  /\ c.error = "No undoable sync found"
  /\ c.sent = <<>>
  /\ c.removedUris = <<>>
  /\ c.after = c.before

\* C5: single-slot undo. The store never holds two entries under one session
\* key, and once a sync of a session has recorded a newer undo entry, an undo
\* request that presents the token of an older one is answered "no undoable
\* sync found", sends no DELETE and removes nothing.
C5_SingleSlotUndo ==
  /\ \A e1 \in sessionUndoStore, e2 \in sessionUndoStore : e1.key = e2.key => e1 = e2
  /\ \A s \in UndoCalls :
       LET c == calls[s]
       IN  (\E i \in 1..c.ledgerAtRead, j \in 1..c.ledgerAtRead :
              /\ i < j
              /\ ledger[i].undoToken = c.undoToken
              /\ ledger[j].session = ledger[i].session)
           => NothingUndone(c)

\* the session that synced twice presents its first token for the playlist it
\* synced into
C5_Witness ==
  \E s \in UndoCalls :
    /\ Len(ledger) = 2
    /\ ledger[1].session = ledger[2].session
    /\ calls[s].ledgerAtRead = 2
    /\ calls[s].undoToken = ledger[1].undoToken
    /\ calls[s].session = ledger[1].session
    /\ calls[s].playlistId = ledger[1].playlistId
    /\ calls[s].status = 404
    /\ \E e \in sessionUndoStore : e.value.undoToken = ledger[2].undoToken

\* C6: single-use undo. An undo request that matches the stored token and
\* playlist id gets the recorded entries and leaves the session without a
\* slot in the same step; the entry of one sync is handed out at most once,
\* and an undo request that presents a token handed out before is answered
\* "no undoable sync found".
C6_SingleUseUndo ==
  /\ \A i \in DOMAIN ledger : ledger[i].consumed <= 1
  /\ \A s \in UndoCalls :
       LET c == calls[s]
       IN  /\ c.matched =>
                /\ ~c.consumedBefore
                /\ c.entries = Issued(c.undoToken).entries
                /\ ~MapHas(c.storeAfter, getSessionKey([accessToken |-> c.session]))
           /\ c.consumedBefore => NothingUndone(c)

\* the token is presented again by its session, with no sync in between
C6_Witness ==
  \E s \in UndoCalls :
    /\ Len(ledger) = 1
    /\ ledger[1].consumed = 1
    /\ calls[s].consumedBefore
    /\ calls[s].undoToken = ledger[1].undoToken
    /\ calls[s].session = ledger[1].session
    /\ calls[s].playlistId = ledger[1].playlistId
    /\ calls[s].status = 404

\* the undo request does not match what the store held for its session
Mismatched(c) ==
  LET sessionKey == getSessionKey([accessToken |-> c.session])
  IN  \/ ~MapHas(c.storeAtRead, sessionKey)
      \/ MapGet(c.storeAtRead, sessionKey).undoToken # c.undoToken
      \/ MapGet(c.storeAtRead, sessionKey).playlistId # c.playlistId

\* C7: a mismatched undo is a pure no-op. When the token of an undo request
\* differs from the stored token, or its playlist id from the stored playlist
\* id, or the session has no entry, the answer is "no undoable sync found",
\* the store is left as it was and no DELETE is sent to the remote.
C7_MismatchedUndoNoOp ==
  \A s \in UndoCalls :
    Mismatched(calls[s]) =>
      /\ NothingUndone(calls[s])
      /\ calls[s].storeAfter = calls[s].storeAtRead

\* the stored entry survives a request for the wrong playlist and is handed
\* to the matching request that follows
C7_Witness ==
  \E s \in UndoCalls, t \in UndoCalls :
    /\ calls[s].seq < calls[t].seq
    /\ calls[s].session = calls[t].session
    /\ calls[s].undoToken = calls[t].undoToken
    /\ calls[s].playlistId # calls[t].playlistId
    /\ calls[s].status = 404
    /\ calls[s].storeAtRead # {}
    /\ calls[s].storeAfter = calls[s].storeAtRead
    /\ calls[t].matched

\* two lists hold the same URIs the same number of times
SameMultiset(urisA, urisB) ==
  /\ Len(urisA) = Len(urisB)
  /\ \A u \in Uris : CountOf(u, urisA) = CountOf(u, urisB)

\* C8: sync followed by undo is a round trip. If a sync into a playlist added
\* a non-empty list and returned undo token T, and nobody else modified the
\* playlist during the sync or before the undo, then the undo request of the
\* same session for that playlist with T removes exactly what the sync
\* appended and leaves the playlist as it was before the sync.
C8_SyncUndoRoundTrip ==
  \A s \in UndoCalls :
    LET c == calls[s]
    IN  (/\ c.matched
         /\ Issued(c.undoToken).alone
         /\ c.snapAtRead = Issued(c.undoToken).snapAfter
         /\ c.alone
         /\ c.status # 503)
        => /\ c.status = 200
           /\ SameMultiset(c.removedUris, Issued(c.undoToken).added)
           /\ c.after = Issued(c.undoToken).before

\* C9: sync adds what the comparison displayed as missing. When trackUris is
\* the URI list of a selection of the occurrences the comparison of A and B
\* tagged "uniqueToA" and B is unchanged since the comparison, a sync into B
\* that ends well has added every one of them: addedUris equals trackUris.
C9_SyncAddsDisplayedMissing ==
  \A s \in Slots :
    LET c == calls[s]
    IN  (c.kind = "sync" /\ c.pc = "done" /\ c.status = 200 /\ c.displayedMissing)
        => c.addedUris = c.trackUris

\* a sync request that was answered with 200
SyncedWell(c) == c.kind = "sync" /\ c.pc = "done" /\ c.status = 200

\* sync request c2 repeats sync request c1: same session, same target, same
\* trackUris, and it read the target as the last request of c1 left it,
\* nobody else having modified the target while c1 ran
Repeats(c2, c1) ==
  /\ SyncedWell(c1)
  /\ c2.kind = "sync"
  /\ c2.seq > c1.seq
  /\ c2.session = c1.session
  /\ c2.playlistId = c1.playlistId
  /\ c2.trackUris = c1.trackUris
  /\ c1.alone
  /\ c2.snapAtRead = c1.snapAtRead + Len(c1.sent)

\* C25: sync is idempotent. When a sync into a playlist has ended well and is
\* repeated with the same trackUris while nobody else modifies the playlist,
\* the second request filters out every candidate, issues no add request,
\* returns addedUris = [] and undoToken = null and leaves the playlist as it
\* was.
C25_SyncIdempotent ==
  \A s \in Slots, t \in Slots :
    Repeats(calls[t], calls[s]) =>
      /\ calls[t].before = calls[s].after
      /\ SyncedWell(calls[t])
      /\ calls[t].filteredUris = <<>>
      /\ calls[t].issued = 0
      /\ calls[t].sent = <<>>
      /\ calls[t].addedUris = <<>>
      /\ calls[t].resultToken = NoUndoToken
      /\ calls[t].after = calls[t].before

\* the first sync added two occurrences of a URI to a playlist that held one
\* or none, and was repeated
C25_Witness ==
  \E s \in Slots, t \in Slots :
    /\ Repeats(calls[t], calls[s])
    /\ calls[s].trackUris = <<"X", "X">>
    /\ calls[s].addedUris # <<>>
    /\ remote[calls[t].playlistId] = calls[s].after

\* the snapshot id of the entry that the session of the call held in the
\* undo store when the call came in
StoredSnapshotId(c) ==
  MapGet(c.storeAtRead, getSessionKey([accessToken |-> c.session])).snapshotId

\* every entry of the undo store holds the snapshot id that the last POST of
\* its sync returned
EntriesStoreSnapshot ==
  \A e \in sessionUndoStore :
    e.value.snapshotId =
      SnapshotId(e.value.playlistId, Issued(e.value.undoToken).snapAfter)

\* C17: undo guards against concurrent modification with the recorded
\* token. The undo entry stores the snapshot id returned by the add of the
\* sync, and a matching undo hands that snapshot id to
\* removeTracksFromPlaylist, so that its first DELETE carries it.
C17_UndoPassesRecordedToken ==
  /\ EntriesStoreSnapshot
  /\ \A s \in Slots :
       LET c == calls[s]
       IN  (c.kind = "undo" /\ c.matched) =>
             /\ c.options = StoredSnapshotId(c)
             /\ \A k \in DOMAIN c.sent : k = 1 => c.sent[k].snapshotId = StoredSnapshotId(c)

\* the undo slot of the session with this access token: the set of its
\* entries in the given store, empty or a singleton
SlotOf(store, accessToken) ==
  {e.value : e \in {x \in store : x.key = getSessionKey([accessToken |-> accessToken])}}

\* the call is an undo whose token was issued to another session, for the
\* playlist the call names
ForeignUndo(c) ==
  /\ c.kind = "undo"
  /\ c.pc = "done"
  /\ \E i \in DOMAIN ledger :
       /\ ledger[i].undoToken = c.undoToken
       /\ ledger[i].playlistId = c.playlistId
       /\ ledger[i].session # c.session

\* C18: sessions are isolated in the undo store. The slot of a session holds
\* only entries that a sync of that session recorded; a step changes the slot
\* of a session only when it is a step of a request of that session; an undo
\* that matched was handed an entry recorded by its own session; and an undo
\* that presents the token and playlist id of an entry of another session is
\* answered "no undoable sync found" and leaves the store as it was.
C18_SessionsIsolated ==
  /\ [](\A t \in AccessTokens : \A v \in SlotOf(sessionUndoStore, t) :
          Issued(v.undoToken).session = t)
  /\ [](\A s \in Slots :
          /\ (calls[s].kind = "undo" /\ calls[s].matched) =>
               Issued(calls[s].undoToken).session = calls[s].session
          /\ ForeignUndo(calls[s]) =>
               /\ NothingUndone(calls[s])
               /\ calls[s].storeAfter = calls[s].storeAtRead)
  /\ [][\A t \in AccessTokens :
          SlotOf(sessionUndoStore', t) # SlotOf(sessionUndoStore, t) =>
            \E s \in Slots : calls'[s] # calls[s] /\ calls'[s].session = t]_vars

\* session at2 presented the token of the entry that session at1 holds for
\* the same playlist, and at1 still holds it
C18_Witness ==
  \E s \in Slots :
    /\ ForeignUndo(calls[s])
    /\ calls[s].session = "at2"
    /\ \E v \in SlotOf(sessionUndoStore, "at1") :
         v.undoToken = calls[s].undoToken /\ v.playlistId = calls[s].playlistId
    /\ SlotOf(sessionUndoStore, "at2") = {}

-----------------------------------------------------------------------------
\* Properties of the candidate filter (SpecFilter)

\* the URIs of the items that carry a track, in playlist order
ExistingUris(items) ==
  LET HasTrack(item) == item.track # NoTrack
      kept == SelectSeq(items, HasTrack)
  IN  [i \in DOMAIN kept |-> kept[i].track]

\* candidateUris without, for each URI u, its first
\* min(count_E(u), count_C(u)) occurrences; the rest in the original order
ExcessCandidates(existingUris, candidateUris) ==
  LET Rank(i) == Cardinality({j \in 1..i : candidateUris[j] = candidateUris[i]})
      keep == {i \in DOMAIN candidateUris : Rank(i) > CountOf(candidateUris[i], existingUris)}
      RECURSIVE Build(_)
      Build(i) == IF i = 0 THEN <<>>
                  ELSE IF i \in keep THEN Append(Build(i - 1), candidateUris[i])
                       ELSE Build(i - 1)
  IN  Build(Len(candidateUris))

\* C10: getFilteredCandidateUris is occurrence-aware. The result is the
\* candidate list with, for each URI u, its first min(count_E(u), count_C(u))
\* occurrences removed and every other element kept in order; an empty
\* candidate list yields [] without a request to the remote.
C10_FilterOccurrenceAware ==
  filterResult.status = "done" =>
    /\ filterResult.filtered = ExcessCandidates(ExistingUris(inItems), inCandidates)
    /\ inCandidates = <<>> => filterResult.filtered = <<>> /\ filterResult.fetches = 0

\* the spec's example: target [X, X], candidates [X, X, X], result [X]; the
\* target spans two pages, so the filter did call the remote
C10_Witness ==
  /\ filterResult.status = "done"
  /\ ExistingUris(inItems) = <<"X", "X">>
  /\ Len(inItems) = 3
  /\ inCandidates = <<"X", "X", "X">>
  /\ filterResult.filtered = <<"X">>
  /\ filterResult.fetches = 1

-----------------------------------------------------------------------------
\* Properties of the fetcher (SpecFetch)

\* the remote answers every request of the call with a 429
AlwaysRateLimited == fetchRemote.rateLimited = Forever

\* the error of a call that gave up on a 429 of the remote: status 429, the
\* status text, and the body parsed when it is JSON and raw otherwise
RateLimitError ==
  [kind |-> "throw", status |-> 429, statusText |-> "Too Many Requests",
   value |-> IF fetchRemote.body.isJson THEN <<"parsed", fetchRemote.body.text>>
             ELSE fetchRemote.body.text]

\* C11 as stated: against a remote that answers every request with 429 the
\* call issues at most 5 network requests in total, and when it ends it has
\* thrown SpotifyApiError with status 429, the status text and the
\* parsed-or-raw body.
C11_AtMostFiveRequests ==
  AlwaysRateLimited =>
    /\ fetchCall.requests <= 5
    /\ fetchCall.pc = "done" => fetchCall.outcome = RateLimitError

\* C11 amended: against a remote that answers every request with 429 the
\* call issues at most 6 network requests in total, the first and 5 retries,
\* and it ends only after the sixth, having thrown SpotifyApiError with
\* status 429, the status text and the parsed-or-raw body.
C11_AtMostFiveRetries ==
  AlwaysRateLimited =>
    /\ fetchCall.requests <= 6
    /\ Len(fetchCall.delays) <= 5
    /\ fetchCall.pc = "done" =>
         /\ fetchCall.requests = 6
         /\ fetchCall.outcome = RateLimitError

\* a call has given up against such a remote, whose 429 carried a raw body
C11_Witness ==
  /\ AlwaysRateLimited
  /\ fetchCall.pc = "done"
  /\ fetchCall.outcome.kind = "throw"
  /\ ~fetchRemote.body.isJson
  /\ fetchCall.requests = 6

\* the remote answers the call with at most 5 responses with 429 and then
\* with a 2xx
TransientlyRateLimited ==
  /\ fetchCall.pc # "idle"
  /\ fetchRemote.rateLimited \in 0..5
  /\ fetchRemote.final.status \in 200..299

\* the call has returned what the final response of the remote carries
ReturnedFinal ==
  /\ fetchCall.pc = "done"
  /\ fetchCall.outcome.kind = "return"
  /\ fetchCall.outcome.value =
       IF fetchRemote.final.status = 204 THEN <<>>
       ELSE IF fetchRemote.final.jsonContentType
       THEN <<"parsed", fetchRemote.final.body.text>>
       ELSE fetchRemote.final.body.text

\* C12: transient rate limiting is invisible to the caller. A call that the
\* remote answers with k consecutive 429 responses, k <= 5, and then with a
\* 2xx response never throws, issues k + 1 requests, and in the end returns
\* the result of the 2xx response.
C12_TransientRateLimitInvisible ==
  /\ [](TransientlyRateLimited => fetchCall.outcome.kind # "throw")
  /\ [](TransientlyRateLimited /\ fetchCall.pc = "done" =>
          ReturnedFinal /\ fetchCall.requests = fetchRemote.rateLimited + 1)
  /\ (TransientlyRateLimited /\ fetchCall.pc = "inflight") ~> ReturnedFinal

\* a call has returned the parsed body after 5 responses with 429
C12_Witness ==
  /\ TransientlyRateLimited
  /\ ReturnedFinal
  /\ fetchRemote.rateLimited = 5
  /\ fetchRemote.final.jsonContentType

\* C13: only rate limiting is retried. Whenever the latest response of the
\* remote has a status that is neither 2xx nor 429, the call has ended by
\* throwing SpotifyApiError with that status, its status text and the
\* parsed-or-raw body, it issued one request per response, and it never
\* issues another.
C13_OtherErrorsNotRetried ==
  /\ [](fetchCall.response.status \notin (200..299) \cup {0, 429} =>
          /\ fetchCall.pc = "done"
          /\ fetchCall.outcome.kind = "throw"
          /\ fetchCall.outcome.status = fetchCall.response.status
          /\ fetchCall.outcome.statusText = fetchCall.response.statusText
          /\ fetchCall.outcome.value =
               IF fetchCall.response.body.isJson
               THEN <<"parsed", fetchCall.response.body.text>>
               ELSE fetchCall.response.body.text
          /\ fetchCall.requests = fetchRemote.answered)
  /\ [][fetchCall.pc = "done" => fetchCall' = fetchCall]_vars

\* a call has thrown on a 500 that came after three responses with 429
C13_Witness ==
  /\ fetchCall.pc = "done"
  /\ fetchCall.response.status = 500
  /\ fetchCall.outcome.kind = "throw"
  /\ fetchRemote.answered = 4

\* the delay that the header of the 429 responses asks for at time t
AskedDelay(t) ==
  LET h == fetchRemote.retryAfter
      nearest == (h.value + 5) \div 10
      remaining == h.value - t
  IN  CASE h.kind = "number" -> IF nearest < 1 THEN 1 ELSE nearest
        [] h.kind = "date" -> IF remaining < 1000 THEN 1000 ELSE remaining
        [] OTHER -> 1000

\* C21: the 429 backoff delay is derived from Retry-After. A numeric header
\* of s seconds gives round(s * 1000) ms and never less than 1 ms, an HTTP
\* date gives the time remaining until that date and never less than 1000
\* ms, an absent or unparseable header gives 1000 ms; the request after the
\* k-th 429 is issued that delay after the 429 arrived, or later, and not
\* while the call sleeps.
C21_BackoffFromRetryAfter ==
  /\ Len(fetchCall.sentAt) = fetchCall.requests
  /\ fetchCall.pc = "sleeping" => fetchCall.requests = Len(fetchCall.delays)
  /\ fetchCall.pc = "inflight" => fetchCall.requests = Len(fetchCall.delays) + 1
  /\ \A k \in DOMAIN fetchCall.delays :
       /\ fetchCall.delays[k] = AskedDelay(fetchCall.sentAt[k])
       /\ k + 1 \in DOMAIN fetchCall.sentAt =>
            fetchCall.sentAt[k + 1] >= fetchCall.sentAt[k] + fetchCall.delays[k]

\* Retry-After: 2 made the call wait 2000 ms before its second request
C21_Witness ==
  /\ fetchRemote.retryAfter = [kind |-> "number", value |-> 20000]
  /\ fetchCall.requests >= 2
  /\ fetchCall.delays[1] = 2000
  /\ fetchCall.sentAt[2] - fetchCall.sentAt[1] = 2000

-----------------------------------------------------------------------------
\* Properties of the pagination walker (SpecWalk)

\* the tracks of the items that have a track body, in order
TracksOf(items) ==
  LET kept == SelectSeq(items, LAMBDA item : item.track # NoTrack)
  IN  [k \in DOMAIN kept |-> [uri |-> kept[k].track]]

\* the page that answered the k-th request of the walk
AnsweredPage(k) == pages.served[pageWalk.requested[k][1]]

\* the tracks of the embedded page followed by those of the first k pages
\* requested
RECURSIVE TracksThrough(_)
TracksThrough(k) ==
  IF k = 0 THEN TracksOf(pages.initial.tracks.items)
  ELSE TracksThrough(k - 1) \o
         (IF AnsweredPage(k).items.isArray THEN TracksOf(AnsweredPage(k).items.items) ELSE <<>>)

\* C23: the pagination walker returns the complete list in page order. The
\* tracks collected are those of the embedded first page followed by those of
\* every page received, in the order the cursors were followed, items without
\* a track body dropped and nothing else dropped, duplicated or reordered;
\* the first request is for the cursor of the embedded page, request k + 1 is
\* for the cursor that the response to request k carried, and it is issued
\* only when that response has arrived.
C23_CompleteInPageOrder ==
  pageWalk.pc # "idle" =>
    /\ pageWalk.tracks = TracksThrough(pageWalk.answered)
    /\ Len(pageWalk.requested) - pageWalk.answered =
         (IF pageWalk.pc = "fetching" THEN 1 ELSE 0)
    /\ \A k \in DOMAIN pageWalk.requested :
         pageWalk.requested[k] =
           IF k = 1 THEN pages.initial.tracks.next.url ELSE AnsweredPage(k - 1).next.url

\* a walk over three pages, the second with an item without track body
C23_Witness ==
  /\ pageWalk.pc = "done"
  /\ pageWalk.requested = <<<<1>>, <<2>>>>
  /\ pageWalk.tracks =
       <<[uri |-> "p0a"], [uri |-> "p1a"], [uri |-> "p1b"], [uri |-> "p2a"]>>

\* a cursor value that ends the chain: null, missing or the empty string
EndsChain(next) == next.kind \in {"null", "missing"} \/ next.url = <<>>

\* the cursors of the chain that starts with the value next, up to the first
\* page that ends the chain or the first cursor that comes back
RECURSIVE ChainFrom(_, _)
ChainFrom(next, visited) ==
  IF EndsChain(next) THEN [cursors |-> <<>>, cyclic |-> FALSE]
  ELSE IF next.url \in visited THEN [cursors |-> <<>>, cyclic |-> TRUE]
  ELSE LET rest == ChainFrom(pages.served[next.url[1]].next, visited \cup {next.url})
       IN  [cursors |-> <<next.url>> \o rest.cursors, cyclic |-> rest.cyclic]

\* the cursor chain of the playlist that is walked
CursorChain == ChainFrom(pages.initial.tracks.next, {})

WalkStarted == pageWalk.pc # "idle"

\* a finished walk has fetched once for every cursor of an acyclic chain, and
\* a walk of a cyclic chain has not finished
StopsWhereChainEnds ==
  WalkStarted =>
    /\ pageWalk.pc = "done" =>
         /\ ~CursorChain.cyclic
         /\ pageWalk.requested = CursorChain.cursors
         /\ pageWalk.answered = Len(CursorChain.cursors)
    /\ pageWalk.pc = "fetching" /\ ~CursorChain.cyclic =>
         /\ Len(pageWalk.requested) <= Len(CursorChain.cursors)
         /\ pageWalk.requested = SubSeq(CursorChain.cursors, 1, Len(pageWalk.requested))

\* C24: pagination terminates exactly when the cursor chain ends. Over a
\* finite acyclic chain the walk fetches once for every non-empty cursor and
\* stops at the first page whose next is null, missing or the empty string;
\* over a chain that revisits a page it never returns.
C24_TerminatesWhereChainEnds ==
  /\ []StopsWhereChainEnds
  /\ (WalkStarted /\ ~CursorChain.cyclic) ~> (pageWalk.pc = "done")

\* a walk of two fetches that stops at a page whose next is the empty string
C24_Witness ==
  /\ pageWalk.pc = "done"
  /\ pageWalk.answered = 2
  /\ AnsweredPage(2).next = StringNext(<<>>)
  /\ pageWalk.requested = CursorChain.cursors

\* a walk of a cyclic chain is still fetching after MaxFetches responses
C24_CyclicStillFetching ==
  /\ pageWalk.pc = "fetching"
  /\ pageWalk.answered = MaxFetches
  /\ CursorChain.cyclic

-----------------------------------------------------------------------------
\* Properties of undo requests that race or fail (Spec)

\* undo requests c and d of one session present the same token and playlist
\* id, c first, and the token matched the entry stored when c came in
SameValidUndo(c, d) ==
  /\ c.kind = "undo"
  /\ d.kind = "undo"
  /\ c.seq < d.seq
  /\ c.session = d.session
  /\ c.undoToken = d.undoToken
  /\ c.playlistId = d.playlistId
  /\ c.status # 400
  /\ ~Mismatched(c)

\* of two such requests the first is handed the entries and the second is
\* answered "no undoable sync found"
OneObtainsEntries ==
  \A s \in Slots, t \in Slots :
    SameValidUndo(calls[s], calls[t]) =>
      /\ calls[s].matched
      /\ calls[s].entries = Issued(calls[s].undoToken).entries
      /\ ~calls[t].matched
      /\ NothingUndone(calls[t])

\* C27: concurrent undo requests cannot both reverse one sync. Of two undo
\* requests of one session that present the same valid token and playlist
\* id, exactly one obtains the entries and issues delete requests, and the
\* other is answered "no undoable sync found".
C27_OneUndoReverses ==
  \A s \in Slots, t \in Slots :
    SameValidUndo(calls[s], calls[t]) =>
      /\ calls[s].matched
      /\ calls[s].issued > 0
      /\ ~calls[t].matched
      /\ NothingUndone(calls[t])

\* a matching undo request whose removal failed
FailedUndo(c) == c.kind = "undo" /\ c.pc = "done" /\ c.matched /\ c.status # 200

\* undo request d presents the token of undo request c again
Retries(d, c) ==
  /\ d.kind = "undo"
  /\ d.seq > c.seq
  /\ d.session = c.session
  /\ d.undoToken = c.undoToken
  /\ d.playlistId = c.playlistId

\* C28: the undo slot is consumed before the removal runs and is not restored
\* when the removal fails. After a matching undo request whose removal
\* failed, the store holds no entry with its token, the removal has removed
\* fewer tracks than the sync recorded, and an undo request of the session
\* that presents the token again is answered "no undoable sync found".
C28_FailedUndoLosesSlot ==
  \A s \in Slots :
    FailedUndo(calls[s]) =>
      /\ ~MapHas(calls[s].storeAfter, getSessionKey([accessToken |-> calls[s].session]))
      /\ \A e \in sessionUndoStore : e.value.undoToken # calls[s].undoToken
      /\ Len(calls[s].removedUris) < Len(Issued(calls[s].undoToken).entries)
      /\ \A t \in Slots : Retries(calls[t], calls[s]) => NothingUndone(calls[t])

\* the undo failed, the retry found nothing, and the playlist still holds
\* every track that the sync added
C28_Witness ==
  \E s \in Slots, t \in Slots :
    /\ FailedUndo(calls[s])
    /\ Retries(calls[t], calls[s])
    /\ calls[t].status = 404
    /\ remote[calls[s].playlistId] =
         Issued(calls[s].undoToken).before \o
           [i \in DOMAIN Issued(calls[s].undoToken).added |->
              [track |-> Issued(calls[s].undoToken).added[i]]]

-----------------------------------------------------------------------------
\* Properties of the writes of the undo slot (SpecSlot)

\* a sync request that ended well without adding a track
ZeroAddSync(c) == SyncedWell(c) /\ c.addedUris = <<>>

\* the step lets a sync of the session of access token t that has added
\* tracks respond, and the slot of the session holds the entry it recorded
RecordsUndo(t) ==
  \E s \in Slots :
    /\ calls[s].pc = "adding"
    /\ calls'[s].pc = "done"
    /\ calls'[s].kind = "sync"
    /\ calls'[s].session = t
    /\ calls'[s].status = 200
    /\ calls'[s].addedUris # <<>>
    /\ calls'[s].resultToken # NoUndoToken
    /\ \E v \in SlotOf(sessionUndoStore', t) :
         /\ v.undoToken = calls'[s].resultToken
         /\ v.entries = calls'[s].addedEntries
         /\ SlotOf(sessionUndoStore', t) = {v}

\* the step is a matching undo request of the session, which empties its slot
ConsumesUndo(t) ==
  \E s \in Slots :
    /\ calls'[s] # calls[s]
    /\ calls'[s].kind = "undo"
    /\ calls'[s].session = t
    /\ calls'[s].matched
    /\ SlotOf(sessionUndoStore', t) = {}

\* undo request d is the request that follows sync request c of its session,
\* no undo entry was recorded in between, and it presents the token and the
\* playlist id of the entry that the session held when c came in
PresentsEarlierToken(d, c) ==
  /\ d.kind = "undo"
  /\ d.session = c.session
  /\ d.seq = c.seq + 1
  /\ d.ledgerAtRead = c.ledgerAtRead
  /\ \E v \in SlotOf(c.storeAtRead, c.session) :
       v.undoToken = d.undoToken /\ v.playlistId = d.playlistId

\* C29: only a sync that adds tracks writes the undo slot. A step changes
\* the slot of a session only when a sync of that session that has added
\* tracks records its entry or when a matching undo of that session consumes
\* it, so compare and remove requests leave every slot alone; a sync that
\* adds no track returns undoToken = null, sends nothing and leaves the
\* entry of its session as it was, and the token of the earlier sync is
\* still accepted by the undo that follows.
C29_OnlyAddingSyncWritesSlot ==
  /\ [][\A t \in AccessTokens :
          SlotOf(sessionUndoStore', t) # SlotOf(sessionUndoStore, t) =>
            RecordsUndo(t) \/ ConsumesUndo(t)]_vars
  /\ [](\A s \in Slots :
          ZeroAddSync(calls[s]) =>
            /\ calls[s].resultToken = NoUndoToken
            /\ calls[s].sent = <<>>
            /\ \A t \in Slots :
                 PresentsEarlierToken(calls[t], calls[s]) =>
                   /\ calls[t].matched
                   /\ calls[t].storeAtRead = calls[s].storeAtRead
                   /\ calls[t].entries = Issued(calls[t].undoToken).entries)

\* a session synced, synced again without adding a track, and its undo with
\* the token of the first sync was handed the entries
C29_Witness ==
  \E s \in Slots, t \in Slots :
    /\ ZeroAddSync(calls[s])
    /\ calls[s].trackUris # <<>>
    /\ PresentsEarlierToken(calls[t], calls[s])
    /\ calls[t].matched

\* a removal went through while the session that asked for it held an entry
C29_RemoveWitness ==
  \E s \in Slots :
    /\ calls[s].kind = "remove"
    /\ calls[s].pc = "done"
    /\ calls[s].status = 200
    /\ SlotOf(sessionUndoStore, calls[s].session) # {}

-----------------------------------------------------------------------------
\* Properties of the two-way sync (SpecTwoWay)

\* the add requests of a direction that the first k events of the log hold
EventsOf(event, direction, k) ==
  {i \in 1..k : syncRun.log[i].event = event /\ syncRun.log[i].direction = direction}

\* the batches of the first direction
TargetBatches == SkipEmptyChunks(chunkArray(syncRun.missingInTargetUris, AddChunkSize))

\* every add request has returned when the next one is issued, and when an
\* add request to the source playlist is issued every batch of the first
\* direction has been issued and has returned
DirectionsInSequence ==
  \A j \in DOMAIN syncRun.log :
    LET e == syncRun.log[j]
    IN  /\ (e.event = "issued" /\ j > 1) => syncRun.log[j - 1].event = "returned"
        /\ e.event = "returned" =>
             /\ j > 1
             /\ syncRun.log[j - 1] = [e EXCEPT !.event = "issued"]
        /\ e.direction = "source" =>
             /\ syncRun.twoWay
             /\ e.playlistId = syncRun.sourceId
             /\ Cardinality(EventsOf("issued", "target", j - 1)) = Len(TargetBatches)
             /\ Cardinality(EventsOf("returned", "target", j - 1)) = Len(TargetBatches)
             /\ EventsOf("issued", "target", Len(syncRun.log)) \subseteq 1..(j - 1)

\* C26: the two-way sync runs its directions one after the other. No add
\* request to the source playlist is issued before every add batch to the
\* target playlist has returned; and when both directions have succeeded
\* and nobody else has modified the playlists, the comparison computed at
\* the end has empty missingInTarget and empty missingInSource.
C26_TwoWaySequential ==
  /\ DirectionsInSequence
  /\ (syncRun.pc = "done" /\ syncRun.twoWay /\ syncRun.alone) =>
       /\ syncRun.comparison.missingInTarget = <<>>
       /\ syncRun.comparison.missingInSource = <<>>
       /\ syncRun.addedToTarget = Len(syncRun.missingInTargetUris)
       /\ syncRun.addedToSource = Len(syncRun.missingInSourceUris)

\* a two-way sync that took two batches to the target and one to the source
C26_Witness ==
  /\ syncRun.pc = "done"
  /\ syncRun.twoWay
  /\ syncRun.alone
  /\ syncRun.addedToTarget > AddChunkSize
  /\ syncRun.addedToSource > 0
  /\ Len(syncRun.log) = 6

-----------------------------------------------------------------------------
\* Properties of the playlist loads of the client (SpecLoad)

\* call i has been superseded: a newer call for its slot has started
Superseded(i) == playlistRequestTokens[loadCalls[i].slot] # loadCalls[i].requestToken

\* C30: a superseded playlist load never wins in the client. Once a newer
\* call of loadPlaylistFully has started for a slot, no older call for that
\* slot writes playlistLoads for it, in whatever order the page responses
\* arrive: a write of a slot is a write of the call started last. A call
\* that settles after it was superseded has not returned a playlist, it has
\* rejected with "playlist-load-cancelled" or with its own error; so a
\* comparison is built only from the calls started last for both slots.
C30_SupersededLoadNeverWins ==
  /\ [][\A slot \in PlaylistSlots :
          playlistLoads'[slot] # playlistLoads[slot] =>
            playlistLoads'[slot].writer = playlistRequestTokens'[slot]]_vars
  /\ [](\A i \in DOMAIN loadCalls :
          /\ loadCalls[i].pc = "returned" =>
               loadCalls[i].tokenAtEnd = loadCalls[i].requestToken
          /\ (loadCalls[i].pc # "fetching" /\
                loadCalls[i].tokenAtEnd # loadCalls[i].requestToken) =>
               /\ loadCalls[i].pc = "rejected"
               /\ loadCalls[i].error \in {"playlist-load-cancelled",
                                          "Failed to load playlist tracks."})
  /\ [](\A k \in DOMAIN compares :
          compares[k].pc = "built" =>
            /\ compares[k].tokensAtBuild = compares[k].requestTokens
            /\ \A slot \in PlaylistSlots :
                 loadCalls[LoadOf(k, slot)].pc = "returned")

\* the first of the loads of an earlier comparison had returned when the
\* next comparison started; the other was cancelled when its last page
\* came, and the later comparison was built
C30_Witness ==
  /\ Len(compares) = 2
  /\ loadCalls[1].pc = "returned"
  /\ loadCalls[2].pc = "rejected"
  /\ loadCalls[2].error = "playlist-load-cancelled"
  /\ compares[1].pc = "cancelled"
  /\ compares[2].pc = "built"
  /\ comparison.status = "built"
  /\ playlistLoads["A"].writer = 2
  /\ playlistLoads["B"].writer = 2

====
